---- MODULE Spec2Model ----
(***************************************************************************)
(* State-machine model of singularity-payments-py: the retry engine        *)
(* (core/mpesa/utils/retry.py), the error taxonomy (utils/errors.py), the  *)
(* local and Redis rate limiters (utils/ratelimiter.py), the request       *)
(* executor MpesaClient.makeRequest and the inbound callback entry points  *)
(* (utils/callback.py, client/mpesa_client.py, packages/django/views.py).  *)
(***************************************************************************)
EXTENDS Integers, Sequences, FiniteSets, TLC

VARIABLES
    \* ---- retry engine (retryWithBackoff) ----
    opts,        \* merged RetryOptions of the running call
    pc,          \* "idle" | "attempt" | "sleep" | "done"
    attempt,     \* loop variable of `for attempt in range(maxRetries + 1)`
    failLog,     \* errors raised by fn(), one per failed invocation
    calls,       \* number of invocations of fn()
    onRetryLog,  \* <<error, attemptNumber>> of every onRetry call
    sleepLog,    \* delay (ms) of every asyncio.sleep
    result,      \* what retryWithBackoff gave its caller
    \* ---- request executor (MpesaClient.makeRequest) ----
    limiterKind, \* "none" | "local" | "redis": self.ratelimiter
    rlKey,       \* ratelimitKey argument (NoKey = None)
    checkCalls,  \* number of ratelimiter.checkLimit calls of this makeRequest
    tokenFetches,\* number of auth.getAccessToken calls of this makeRequest
    posts,       \* number of session.post calls of this makeRequest
    requests,    \* number of makeRequest calls started so far
    lastPost,    \* what session.post did in the last attempt of this makeRequest
    \* ---- rate limiters ----
    limOpts,     \* RateLimiterOptions: maxRequests, windowMs
    now,         \* wall clock, ms
    store,       \* RateLimiter.store: key -> entry (NoEntry when absent)
    redis,       \* the Redis store: key -> [value, expireAt] (NoEntry when absent)
    checks,      \* number of checkLimit calls made on the limiters so far
    win,         \* key -> the fixed window the clock defines: calls so far, resetAt
    lastCheck,   \* the last checkLimit call: key, time, both limiters' decisions, its
                 \* number n in the window ending at resetAt, the local entry it left
    lastUsage,   \* what getUsage reported and the store it found, if the step into this
                 \* state was a getUsage call (NoUsage otherwise)
    \* ---- callback engine ----
    handler,     \* configuration of the MpesaCallbackHandler serving callbacks
    cbLog,       \* what the current delivery invoked, in order
    cbResult,    \* how the current delivery ended at the transport boundary
    cbReq,       \* the current delivery: entry point, payload, source address
    parsed,      \* what the delivery's parser returned (NoParsed if it did not return)
    deliveries,  \* number of times the gateway has delivered cbReq
    cbOptions,   \* the callbackOptions the handler was configured from, and by whom
    \* ---- error translation (parse_mpesa_api_error) ----
    apiCall,     \* the arguments of the call: status_code, response_body
    apiError,    \* the MpesaError the call returned (NoError before the call)
    \* ---- connection session of an MpesaClient ----
    session,     \* self._session (cur, 0 = None), the sessions open now, how many were
                 \* opened, the sessions attempts used since the last destroy(), the
                 \* number opened before it, and the number of destroy() calls
    tasks,       \* concurrent makeRequest calls: position and attempt number of each
    cleanupTask, \* the local limiter's _cleanup_task and the task it names
    procs,       \* processes inside RedisRateLimiter.checkLimit on one key
    lives,       \* the lives of that key's counter and the calls each admitted
    coros,       \* coroutines of one event loop calling RateLimiter.checkLimit on one key
    delayCall,   \* the latest calculateDelay call of a run of the retry loop
    extraction,  \* a result payload's parser, result code and metadata items, and the
                 \* outcome fields the parser extracted from them
    admitLog,    \* the times at which the local limiter admitted a call on one key
    unswept      \* a RateLimiter given the same calls as `store` and never swept: its
                 \* store and its last checkLimit decision

retryVars   == <<opts, pc, attempt, failLog, calls, onRetryLog, sleepLog, result>>
requestVars == <<limiterKind, rlKey, checkCalls, tokenFetches, posts, requests, lastPost>>
limiterVars == <<limOpts, now, store, redis, checks, win, lastCheck, lastUsage>>
callbackVars == <<handler, cbOptions, cbLog, cbResult, cbReq, parsed, deliveries>>
errorVars == <<apiCall, apiError, delayCall, extraction>>
sessionVars == <<session, tasks>>
cleanupVars == <<cleanupTask>>
procVars == <<procs, lives, coros>>
windowVars == <<admitLog, unswept>>
sideVars == <<cleanupVars, procVars, windowVars>>
otherVars == <<errorVars, sessionVars, sideVars>>
vars == <<retryVars, requestVars, limiterVars, callbackVars, otherVars>>

\* Python's None
NoneVal == -1
\* Python truthiness of an Optional[int]
Truthy(x) == x # NoneVal /\ x # 0

(***************************************************************************)
(* Bounds of the model.                                                    *)
(***************************************************************************)
MaxRetriesBound == 2
MaxTime == 3000
MaxChecks == 4
MaxRequestsBound == 2
MaxRequestCalls == 2
MaxDeliveries == 2
MaxTasks == 2
MaxDestroys == 2
MaxProcs == 2
MaxDelayCalls == 4
MaxFineTime == 20
MaxItems == 3
MaxCoros == 2
\* the random draw of calculateDelay is u = j / JitterDen, j in -JitterDen..JitterDen-1
JitterDen == 1

(***************************************************************************)
(* Error taxonomy: utils/errors.py.  An exception is a record; fields an   *)
(* exception class does not define read as getattr's default.              *)
(***************************************************************************)
\* an attribute holding a body that was never set
NoBody == [tag |-> "unset"]

MpesaKinds == {"MpesaError", "MpesaAuthError", "MpesaValidationError", "MpesaNetworkError",
               "MpesaTimeoutError", "MpesaRateLimitError", "MpesaApiError"}

MpesaError(kind, code, status_code, details) ==
    [kind |-> kind, code |-> code, status_code |-> status_code, details |-> details,
     is_retryable |-> FALSE, retry_after |-> NoneVal, response_body |-> NoBody,
     name |-> kind]

MpesaAuthError(details) == MpesaError("MpesaAuthError", "AUTH_ERROR", 401, details)

MpesaValidationError(details) ==
    MpesaError("MpesaValidationError", "VALIDATION_ERROR", 400, details)

MpesaNetworkError(is_retryable, details) ==
    [MpesaError("MpesaNetworkError", "NETWORK_ERROR", 503, details)
        EXCEPT !.is_retryable = is_retryable]

MpesaTimeoutError(details) == MpesaError("MpesaTimeoutError", "TIMEOUT_ERROR", 408, details)

MpesaRateLimitError(retry_after, details) ==
    [MpesaError("MpesaRateLimitError", "RATE_LIMIT_ERROR", 429, details)
        EXCEPT !.retry_after = retry_after]

MpesaApiError(code, status_code, response_body) ==
    [MpesaError("MpesaApiError", code, status_code, response_body)
        EXCEPT !.response_body = response_body]

\* the `details` argument of an error: an opaque value the caller chose
Details(tag) == [tag |-> tag]

\* an exception that is no MpesaError; `name` and `code` are what getattr finds
OtherError(kind, name, code) ==
    [kind |-> kind, code |-> code, status_code |-> NoneVal, details |-> Details("none"),
     is_retryable |-> FALSE, retry_after |-> NoneVal, response_body |-> NoBody,
     name |-> name]

\* `'X' object is not subscriptable`, raised by error["..."] on an exception
TypeError == OtherError("TypeError", "TypeError", "none")

\* asyncio.CancelledError, thrown into a task at the await it is suspended in
CancelledError == OtherError("CancelledError", "CancelledError", "none")

\* the exception a caller's onRetry callback raises
OnRetryError == OtherError("ValueError", "ValueError", "none")

\* no exception
NoError == OtherError("none", "none", "none")

IsMpesaError(e) == e.kind \in MpesaKinds

(***************************************************************************)
(* Retry engine: utils/retry.py                                            *)
(***************************************************************************)
DefaultMaxRetries == 3
DefaultInitialDelayMs == 1000
DefaultMaxDelayMs == 10000
DefaultBackoffMultiplier == 2
DefaultRetryableStatusCodes == {408, 429, 500, 502, 503, 504}

DEFAULT_RETRY_OPTIONS ==
    [maxRetries |-> DefaultMaxRetries, initialDelayMs |-> DefaultInitialDelayMs,
     maxDelayMs |-> DefaultMaxDelayMs, backoffMultiplier |-> DefaultBackoffMultiplier,
     retryableStatusCodes |-> DefaultRetryableStatusCodes, onRetry |-> "noop"]

\* the outcome of a Python call: a value, or an exception raised
Returned(v) == [raised |-> FALSE, value |-> v, error |-> NoError]
Raised(e) == [raised |-> TRUE, value |-> NoneVal, error |-> e]

\* isRetryableError(error, retryableStatusCodes); line 40 subscripts the exception
isRetryableError(error, retryableStatusCodes) ==
    IF error.kind = "MpesaNetworkError" THEN Returned(error.is_retryable)
    ELSE IF error.kind = "MpesaRateLimitError" THEN Returned(TRUE)
    ELSE IF IsMpesaError(error) /\ Truthy(error.status_code) THEN Raised(TypeError)
    ELSE IF error.name = "FetchError" \/ error.code \in {"ECONNREFUSED", "ETIMEDOUT"}
         THEN Returned(TRUE)
    ELSE Returned(FALSE)

RECURSIVE Pow(_, _)
Pow(b, n) == IF n = 0 THEN 1 ELSE b * Pow(b, n - 1)

Min(a, b) == IF a <= b THEN a ELSE b

\* the delay before jitter without its cap
BaseDelayUncapped(att, o) == o.initialDelayMs * Pow(o.backoffMultiplier, att)

\* delay before jitter: min(initialDelayMs * backoffMultiplier ** attempt, maxDelayMs)
BaseDelay(att, o) == Min(o.initialDelayMs * Pow(o.backoffMultiplier, att), o.maxDelayMs)

\* calculateDelay(attempt, options, error) with random.random() = (j + JitterDen) / (2 * JitterDen);
\* line 58 subscripts the exception
calculateDelay(att, o, error, j) ==
    IF error.kind = "MpesaRateLimitError" /\ Truthy(error.retry_after)
    THEN Raised(TypeError)
    ELSE Returned((BaseDelay(att, o) * 10 * JitterDen + BaseDelay(att, o) * 2 * j)
                     \div (10 * JitterDen))

JitterDraws == (0 - JitterDen) .. (JitterDen - 1)

\* ---- calculateDelay called as the retry loop calls it: attempt 0, 1, 2, ... ----
NoDelayCall ==
    [opts |-> DEFAULT_RETRY_OPTIONS, attempt |-> 0 - 1, error |-> NoError, delay |-> 0,
     prev |-> 0, raised |-> FALSE, value |-> 0]

DelayOptionSets ==
    {DEFAULT_RETRY_OPTIONS}
    \cup [maxRetries : {DefaultMaxRetries}, initialDelayMs : {1, 7, DefaultInitialDelayMs},
          maxDelayMs : {3 * DefaultInitialDelayMs}, backoffMultiplier : {1, 3},
          retryableStatusCodes : {DefaultRetryableStatusCodes}, onRetry : {"noop"}]

\* the errors of the failed attempts: without a retry-after hint, and with one
DelayErrors ==
    { MpesaNetworkError(TRUE, Details("d1")), MpesaRateLimitError(NoneVal, Details("d1")),
      MpesaRateLimitError(1, Details("d1")) }

\* line 93: `delay = calculateDelay(attempt, opts, error)` for the next attempt number.
\* delay is the local `delay` of lines 60-64 (kept from the call before when the hint
\* branch returns first), prev the one of the call before
CalculateDelay ==
    /\ delayCall.attempt + 1 < MaxDelayCalls
    /\ \E o \in (IF delayCall.attempt < 0 THEN DelayOptionSets ELSE {delayCall.opts}),
          e \in DelayErrors, j \in JitterDraws :
          LET a == delayCall.attempt + 1
              r == calculateDelay(a, o, e, j)
              hinted == e.kind = "MpesaRateLimitError" /\ Truthy(e.retry_after)
          IN  delayCall' = [opts |-> o, attempt |-> a, error |-> e,
                            delay |-> IF hinted THEN delayCall.delay ELSE BaseDelay(a, o),
                            prev |-> delayCall.delay, raised |-> r.raised,
                            value |-> r.value]
    /\ UNCHANGED <<apiCall, apiError, extraction>>
    /\ UNCHANGED <<retryVars, requestVars, limiterVars, callbackVars, sessionVars, sideVars>>

NoResult == [kind |-> "none", error |-> NoError, value |-> NoneVal]
ResultReturned(v) == [kind |-> "returned", error |-> NoError, value |-> v]
ResultRaised(e) == [kind |-> "raised", error |-> e, value |-> NoneVal]

\* the `except Exception as error` block of retryWithBackoff, lines 84-96, for the
\* error `error` of the current attempt and the random draw j; opts.onRetry is "noop"
\* for a callback that returns and "raises" for one that raises (line 94 is unguarded)
HandleFailure(error, j) ==
    LET cls == isRetryableError(error, opts.retryableStatusCodes)
        d == calculateDelay(attempt, opts, error, j)
    IN  /\ failLog' = Append(failLog, error)
        /\ IF cls.raised
           THEN /\ result' = ResultRaised(cls.error)
                /\ pc' = "done"
                /\ UNCHANGED <<onRetryLog, sleepLog>>
           ELSE IF ~cls.value \/ attempt = opts.maxRetries
           THEN /\ result' = ResultRaised(error)
                /\ pc' = "done"
                /\ UNCHANGED <<onRetryLog, sleepLog>>
           ELSE IF d.raised
           THEN /\ result' = ResultRaised(d.error)
                /\ pc' = "done"
                /\ UNCHANGED <<onRetryLog, sleepLog>>
           ELSE IF opts.onRetry = "raises"
           THEN /\ onRetryLog' = Append(onRetryLog, <<error, attempt + 1>>)
                /\ result' = ResultRaised(OnRetryError)
                /\ pc' = "done"
                /\ UNCHANGED sleepLog
           ELSE /\ onRetryLog' = Append(onRetryLog, <<error, attempt + 1>>)
                /\ sleepLog' = Append(sleepLog, d.value)
                /\ pc' = "sleep"
                /\ UNCHANGED result

\* errors an arbitrary operation fn may raise
FnErrors ==
    { MpesaValidationError(Details("d1")), MpesaAuthError(Details("d1")), MpesaTimeoutError(Details("d1")),
      MpesaNetworkError(TRUE, Details("d1")), MpesaNetworkError(FALSE, Details("d1")),
      MpesaRateLimitError(NoneVal, Details("d1")), MpesaRateLimitError(1, Details("d1")),
      MpesaApiError("404.001.03", 404, Details("d1")),
      MpesaError("MpesaError", "ECONNREFUSED", NoneVal, Details("d1")),
      OtherError("KeyError", "KeyError", "none"),
      OtherError("FetchError", "FetchError", "none") }

RetryOptionSets ==
    [maxRetries : 0 .. MaxRetriesBound, initialDelayMs : {1, DefaultInitialDelayMs},
     maxDelayMs : {3 * DefaultInitialDelayMs}, backoffMultiplier : {DefaultBackoffMultiplier},
     retryableStatusCodes : {DefaultRetryableStatusCodes}, onRetry : {"noop", "raises"}]

\* retryWithBackoff(fn, options) is called: lines 74-79
RetryStart ==
    /\ pc = "idle"
    /\ \E o \in RetryOptionSets : opts' = o
    /\ pc' = "attempt"
    /\ attempt' = 0
    /\ UNCHANGED <<failLog, calls, onRetryLog, sleepLog, result>>
    /\ UNCHANGED <<requestVars, limiterVars, callbackVars, otherVars>>

\* one pass of the loop body with fn() returning: lines 81-83
AttemptReturns ==
    /\ pc = "attempt"
    /\ calls' = calls + 1
    /\ result' = ResultReturned(0)
    /\ pc' = "done"
    /\ UNCHANGED <<opts, attempt, failLog, onRetryLog, sleepLog>>
    /\ UNCHANGED <<requestVars, limiterVars, callbackVars, otherVars>>

\* one pass of the loop body with fn() raising: lines 81-96, up to the sleep
AttemptRaises ==
    /\ pc = "attempt"
    /\ calls' = calls + 1
    /\ \E e \in FnErrors, j \in JitterDraws : HandleFailure(e, j)
    /\ UNCHANGED <<opts, attempt>>
    /\ UNCHANGED <<requestVars, limiterVars, callbackVars, otherVars>>

\* an except clause that catches BaseException
ExceptBaseException(e) == TRUE

\* `except Exception as error`, line 84: asyncio.CancelledError derives from
\* BaseException and is not caught
ExceptException(e) == e.kind # "CancelledError"

\* the caller cancels the task running retryWithBackoff: CancelledError is thrown at
\* `await fn()` (line 83, inside the try) or at `await asyncio.sleep` (line 96, inside
\* the except block, from where any exception leaves the function)
Cancel ==
    /\ pc \in {"attempt", "sleep"}
    /\ IF pc = "attempt"
       THEN /\ calls' = calls + 1
            /\ IF ExceptException(CancelledError)
               THEN \E j \in JitterDraws : HandleFailure(CancelledError, j)
               ELSE /\ result' = ResultRaised(CancelledError)
                    /\ pc' = "done"
                    /\ UNCHANGED <<failLog, onRetryLog, sleepLog>>
       ELSE /\ result' = ResultRaised(CancelledError)
            /\ pc' = "done"
            /\ UNCHANGED <<calls, failLog, onRetryLog, sleepLog>>
    /\ UNCHANGED <<opts, attempt>>
    /\ UNCHANGED <<requestVars, limiterVars, callbackVars, otherVars>>

\* asyncio.sleep returns and the for loop takes its next value: lines 96, 81
Wake ==
    /\ pc = "sleep"
    /\ now + sleepLog[Len(sleepLog)] <= MaxTime
    /\ now' = now + sleepLog[Len(sleepLog)]
    /\ attempt' = attempt + 1
    /\ pc' = "attempt"
    /\ UNCHANGED <<opts, failLog, calls, onRetryLog, sleepLog, result>>
    /\ UNCHANGED <<limOpts, store, redis, checks, win, lastCheck, lastUsage>>
    /\ UNCHANGED <<requestVars, callbackVars, otherVars>>

(***************************************************************************)
(* Rate limiters: utils/ratelimiter.py                                     *)
(***************************************************************************)
Keys == {"k1", "k2"}
\* ratelimitKey = None
NoKey == "none"
\* the key the calls of one caller share
SharedKey == "k1"

\* store.get(full_key) is None
NoEntry == [count |-> NoneVal, resetAt |-> NoneVal]

\* (x + 999) // 1000
CeilSeconds(x) == (x + 999) \div 1000

\* checkLimit comparing with > where the code has >=
LocalCheckLimitOffByOne(st, key, t, o) ==
    LET entry == st[key] IN
    IF entry = NoEntry \/ t >= entry.resetAt
    THEN [store |-> [st EXCEPT ![key] = [count |-> 1, resetAt |-> t + o.windowMs]],
          admitted |-> TRUE, error |-> NoError]
    ELSE IF entry.count > o.maxRequests
    THEN [store |-> st, admitted |-> FALSE,
          error |-> MpesaRateLimitError(CeilSeconds(entry.resetAt - t),
                       [limit |-> o.maxRequests, windowMs |-> o.windowMs,
                        resetAt |-> entry.resetAt])]
    ELSE [store |-> [st EXCEPT ![key].count = entry.count + 1],
          admitted |-> TRUE, error |-> NoError]

\* checkLimit computing the seconds to wait by floor division
LocalCheckLimitFloorSeconds(st, key, t, o) ==
    LET entry == st[key] IN
    IF entry = NoEntry \/ t >= entry.resetAt
    THEN [store |-> [st EXCEPT ![key] = [count |-> 1, resetAt |-> t + o.windowMs]],
          admitted |-> TRUE, error |-> NoError]
    ELSE IF entry.count >= o.maxRequests
    THEN [store |-> st, admitted |-> FALSE,
          error |-> MpesaRateLimitError((entry.resetAt - t) \div 1000,
                       [limit |-> o.maxRequests, windowMs |-> o.windowMs,
                        resetAt |-> entry.resetAt])]
    ELSE [store |-> [st EXCEPT ![key].count = entry.count + 1],
          admitted |-> TRUE, error |-> NoError]

\* checkLimit whose increment is lost: the call is admitted and the stored count stays
LocalCheckLimitLostUpdate(st, key, t, o) ==
    LET entry == st[key] IN
    IF entry = NoEntry \/ t >= entry.resetAt
    THEN [store |-> [st EXCEPT ![key] = [count |-> 1, resetAt |-> t + o.windowMs]],
          admitted |-> TRUE, error |-> NoError]
    ELSE IF entry.count >= o.maxRequests
    THEN [store |-> st, admitted |-> FALSE,
          error |-> MpesaRateLimitError(CeilSeconds(entry.resetAt - t),
                       [limit |-> o.maxRequests, windowMs |-> o.windowMs,
                        resetAt |-> entry.resetAt])]
    ELSE [store |-> st, admitted |-> TRUE, error |-> NoError]

\* checkLimit counting the calls it rejects as well
LocalCheckLimitCountsRejected(st, key, t, o) ==
    LET entry == st[key] IN
    IF entry = NoEntry \/ t >= entry.resetAt
    THEN [store |-> [st EXCEPT ![key] = [count |-> 1, resetAt |-> t + o.windowMs]],
          admitted |-> TRUE, error |-> NoError]
    ELSE IF entry.count >= o.maxRequests
    THEN [store |-> [st EXCEPT ![key].count = entry.count + 1], admitted |-> FALSE,
          error |-> MpesaRateLimitError(CeilSeconds(entry.resetAt - t),
                       [limit |-> o.maxRequests, windowMs |-> o.windowMs,
                        resetAt |-> entry.resetAt])]
    ELSE [store |-> [st EXCEPT ![key].count = entry.count + 1],
          admitted |-> TRUE, error |-> NoError]

\* RateLimiter.checkLimit(key) at time t on store st: the store after the call and
\* whether the call returned (admitted) or raised MpesaRateLimitError
LocalCheckLimit(st, key, t, o) ==
    LET entry == st[key] IN
    IF entry = NoEntry \/ t >= entry.resetAt
    THEN [store |-> [st EXCEPT ![key] = [count |-> 1, resetAt |-> t + o.windowMs]],
          admitted |-> TRUE, error |-> NoError]
    ELSE IF entry.count >= o.maxRequests
    THEN [store |-> st, admitted |-> FALSE,
          error |-> MpesaRateLimitError(CeilSeconds(entry.resetAt - t),
                       [limit |-> o.maxRequests, windowMs |-> o.windowMs,
                        resetAt |-> entry.resetAt])]
    ELSE [store |-> [st EXCEPT ![key].count = entry.count + 1],
          admitted |-> TRUE, error |-> NoError]

\* getUsage that drops the expired window it finds
getUsageResetOnRead(st, key, t, o) ==
    LET entry == st[key] IN
    IF entry = NoEntry \/ t >= entry.resetAt
    THEN [store |-> [st EXCEPT ![key] = NoEntry], count |-> 0,
          remaining |-> o.maxRequests, resetAt |-> t + o.windowMs]
    ELSE [store |-> st, count |-> entry.count,
          remaining |-> IF o.maxRequests - entry.count > 0
                        THEN o.maxRequests - entry.count ELSE 0,
          resetAt |-> entry.resetAt]

\* RateLimiter.getUsage(key) at time t on store st, lines 60-76: the store after the call
\* and the report {count, remaining, resetAt}
getUsage(st, key, t, o) ==
    LET entry == st[key] IN
    IF entry = NoEntry \/ t >= entry.resetAt
    THEN [store |-> st, count |-> 0, remaining |-> o.maxRequests,
          resetAt |-> t + o.windowMs]
    ELSE [store |-> st, count |-> entry.count,
          remaining |-> IF o.maxRequests - entry.count > 0
                        THEN o.maxRequests - entry.count ELSE 0,
          resetAt |-> entry.resetAt]

\* a sweep that also drops the windows ending within the next second
CleanupEarly(st, t) ==
    [k \in DOMAIN st |-> IF st[k] # NoEntry /\ t + 1000 < st[k].resetAt THEN st[k] ELSE NoEntry]

\* the cleanup() body of RateLimiter._start_cleanup at time t
Cleanup(st, t) == [k \in DOMAIN st |-> IF st[k] # NoEntry /\ t < st[k].resetAt THEN st[k] ELSE NoEntry]

\* the report of getUsage
Report(u) == [count |-> u.count, remaining |-> u.remaining, resetAt |-> u.resetAt]
NeverSwept == [store |-> [k \in Keys |-> NoEntry], admitted |-> TRUE]

\* ---- the Redis store behind RedisLike: a key lives until its expiry time ----
RedisKeys == Keys \X {"count", "ttl"}
NoRedis == [value |-> NoneVal, expireAt |-> NoneVal]
RedisLive(r, rk, t) == r[rk] # NoRedis /\ (r[rk].expireAt = NoneVal \/ t < r[rk].expireAt)

\* INCR: the value after the increment; a missing or expired key counts from 0, without expiry
RedisIncr(r, rk, t) ==
    IF RedisLive(r, rk, t)
    THEN [r EXCEPT ![rk].value = r[rk].value + 1]
    ELSE [r EXCEPT ![rk] = [value |-> 1, expireAt |-> NoneVal]]

\* EXPIRE key seconds: a non-positive timeout deletes the key
RedisExpire(r, rk, seconds, t) ==
    IF ~RedisLive(r, rk, t) THEN r
    ELSE IF seconds <= 0 THEN [r EXCEPT ![rk] = NoRedis]
    ELSE [r EXCEPT ![rk].expireAt = t + seconds * 1000]

\* GET: the value, or None
RedisGet(r, rk, t) == IF RedisLive(r, rk, t) THEN r[rk].value ELSE NoneVal

\* SET key value EX duration as RedisRateLimiter.reset calls it, with duration 0.  RedisLike
\* is a protocol and leaves the outcome of a zero duration to the implementation: the key
\* expires at once, the key is stored without expiry, or the call is refused
SetOutcomes == {"expired", "persistent", "refused"}
RedisSet(r, rk, value, t, outcome) ==
    IF outcome = "expired" THEN [r EXCEPT ![rk] = NoRedis]
    ELSE IF outcome = "persistent" THEN [r EXCEPT ![rk] = [value |-> value, expireAt |-> NoneVal]]
    ELSE r

\* a retry_after that ignores the companion key
RetryAfterWindowOnly(ttl, o) == CeilSeconds(o.windowMs)

\* `retry_after = int(ttl) if ttl else (windowMs + 999) // 1000`, line 138: ttl is the
\* string stored under the companion key, or None
RetryAfter(ttl, o) == IF ttl # NoneVal THEN ttl ELSE CeilSeconds(o.windowMs)

\* the test of line 129 taking every call for the window's first
SetsExpiryAlways(count) == count >= 1

\* `if count == 1`, line 129: this call created the counter and sets its expiry
SetsExpiry(count) == count = 1

\* RedisRateLimiter.checkLimit(key) at time t, run without interleaving
RedisCheckLimit(r, key, t, o) ==
    LET full_key == <<key, "count">>
        r1 == RedisIncr(r, full_key, t)
        count == r1[full_key].value
        r2 == IF SetsExpiry(count)
              THEN RedisExpire(r1, full_key, CeilSeconds(o.windowMs), t) ELSE r1
        ttl == RedisGet(r2, <<key, "ttl">>, t)
        retry_after == RetryAfter(ttl, o)
    IN  IF count > o.maxRequests
        THEN [redis |-> r2, admitted |-> FALSE,
              error |-> MpesaRateLimitError(retry_after,
                           [limit |-> o.maxRequests, windowMs |-> o.windowMs,
                            resetAt |-> NoneVal])]
        ELSE [redis |-> r2, admitted |-> TRUE, error |-> NoError]

WindowChoices == {0, 1000, 1500}
TickSteps == {250, 1000}
FineStep == 10
LimiterOptionSets == [maxRequests : 0 .. MaxRequestsBound, windowMs : WindowChoices]

NoWin == [n |-> 0, resetAt |-> NoneVal]
\* RateLimiter.__init__ and _start_cleanup, lines 28-29 and 97: _cleanup_task names the
\* task running cleanup(), which waits in its sleep between sweeps.  destroys counts the
\* destroy() calls; sweptAfterDestroy records a sweep run after one
StartedCleanup ==
    [handle |-> TRUE, state |-> "pending", destroys |-> 0, sweptAfterDestroy |-> FALSE]
NoUsage == [key |-> NoKey, count |-> 0, remaining |-> 0, resetAt |-> NoneVal,
            found |-> [k \in Keys |-> NoEntry]]
NoCheck == [key |-> NoKey, time |-> NoneVal, local |-> TRUE, redis |-> TRUE, n |-> 0,
            restart |-> FALSE, resetAt |-> NoneVal, entry |-> NoEntry, error |-> NoError]

\* the fixed window the clock defines for a call at time t: a call with no window, or at
\* or after the window's resetAt, is call 1 of a new window ending at t + windowMs
NextWin(w, t, o) ==
    IF w = NoWin \/ t >= w.resetAt
    THEN [n |-> 1, resetAt |-> t + o.windowMs]
    ELSE [w EXCEPT !.n = w.n + 1]

\* the clock advances
Tick ==
    /\ \E d \in TickSteps : now + d <= MaxTime /\ now' = now + d
    /\ lastUsage' = NoUsage
    /\ UNCHANGED <<limOpts, store, redis, checks, win, lastCheck>>
    /\ UNCHANGED <<retryVars, requestVars, callbackVars, otherVars>>

\* one call checkLimit(key) of the call sequence, made on a RateLimiter and on a
\* RedisRateLimiter that were configured alike
CheckLimit(key) ==
    LET l == LocalCheckLimit(store, key, now, limOpts)
        r == RedisCheckLimit(redis, key, now, limOpts)
        w == NextWin(win[key], now, limOpts)
    IN  /\ checks < MaxChecks
        /\ checks' = checks + 1
        /\ store' = l.store
        /\ redis' = r.redis
        /\ win' = [win EXCEPT ![key] = w]
        /\ lastCheck' = [key |-> key, time |-> now, local |-> l.admitted,
                         redis |-> r.admitted, n |-> w.n,
                         restart |-> (win[key] # NoWin /\ now >= win[key].resetAt),
                         resetAt |-> w.resetAt, entry |-> l.store[key], error |-> l.error]
        /\ lastUsage' = NoUsage
        /\ unswept' = [unswept EXCEPT
                          !.store = LocalCheckLimit(unswept.store, key, now, limOpts).store,
                          !.admitted = LocalCheckLimit(unswept.store, key, now, limOpts).admitted]
        /\ UNCHANGED <<limOpts, now, admitLog>>
        /\ UNCHANGED <<retryVars, requestVars, callbackVars, errorVars, sessionVars,
                       cleanupVars, procVars>>

\* the body of checkLimit(SharedKey), lines 32-56, on a RateLimiter alone.  It has no
\* await: once entered it runs to its return or raise without another coroutine or the
\* sweep running in between.  admitLog keeps the times of the calls that returned
CheckLimitBody ==
    LET l == LocalCheckLimit(store, SharedKey, now, limOpts)
        w == NextWin(win[SharedKey], now, limOpts)
    IN  /\ checks < MaxChecks
        /\ checks' = checks + 1
        /\ store' = l.store
        /\ win' = [win EXCEPT ![SharedKey] = w]
        /\ lastCheck' = [key |-> SharedKey, time |-> now, local |-> l.admitted,
                         redis |-> TRUE, n |-> w.n,
                         restart |-> (win[SharedKey] # NoWin /\ now >= win[SharedKey].resetAt),
                         resetAt |-> w.resetAt, entry |-> l.store[SharedKey],
                         error |-> l.error]
        /\ admitLog' = IF l.admitted THEN Append(admitLog, now) ELSE admitLog
        /\ unswept' = [unswept EXCEPT
                          !.store = LocalCheckLimit(unswept.store, SharedKey, now, limOpts).store,
                          !.admitted = LocalCheckLimit(unswept.store, SharedKey, now, limOpts).admitted]
        /\ lastUsage' = NoUsage
        /\ UNCHANGED <<limOpts, now, redis>>
        /\ UNCHANGED <<retryVars, requestVars, callbackVars, errorVars, sessionVars,
                       cleanupVars, procs, lives>>

\* one call checkLimit(SharedKey) of a sequence of calls
LocalCheck ==
    /\ CheckLimitBody
    /\ UNCHANGED coros

\* ---- coroutines of one event loop calling checkLimit on the key ----
Coros == 1 .. MaxCoros
IdleCoro == [pc |-> "idle", admitted |-> FALSE]

\* coroutine c reaches `await self.ratelimiter.checkLimit(ratelimitKey)`: it is ready to
\* run, and runs when the event loop picks it
CoCall(c) ==
    /\ coros[c].pc \in {"idle", "done"}
    /\ checks + Cardinality({d \in Coros : coros[d].pc = "ready"}) < MaxChecks
    /\ coros' = [coros EXCEPT ![c] = [pc |-> "ready", admitted |-> FALSE]]
    /\ lastUsage' = NoUsage
    /\ UNCHANGED <<limOpts, now, store, redis, checks, win, lastCheck>>
    /\ UNCHANGED <<retryVars, requestVars, callbackVars, errorVars, sessionVars,
                   cleanupVars, procs, lives, windowVars>>

\* the event loop runs coroutine c: the whole body of checkLimit
CoCheck(c) ==
    /\ coros[c].pc = "ready"
    /\ CheckLimitBody
    /\ coros' = [coros EXCEPT ![c] = [pc |-> "done", admitted |-> lastCheck'.local]]

\* the clock advances by a second
TickSecond ==
    /\ now + 1000 <= MaxTime
    /\ now' = now + 1000
    /\ lastUsage' = NoUsage
    /\ UNCHANGED <<limOpts, store, redis, checks, win, lastCheck>>
    /\ UNCHANGED <<retryVars, requestVars, callbackVars, otherVars>>

\* the clock advances by a few milliseconds, early in the run
TickFine ==
    /\ now < MaxFineTime
    /\ now' = now + FineStep
    /\ lastUsage' = NoUsage
    /\ UNCHANGED <<limOpts, store, redis, checks, win, lastCheck>>
    /\ UNCHANGED <<retryVars, requestVars, callbackVars, otherVars>>

\* a call getUsage(key) on the RateLimiter
GetUsage(key) ==
    LET u == getUsage(store, key, now, limOpts) IN
    /\ store' = u.store
    /\ lastUsage' = [key |-> key, count |-> u.count, remaining |-> u.remaining,
                     resetAt |-> u.resetAt, found |-> store]
    /\ unswept' = [unswept EXCEPT
                      !.store = getUsage(unswept.store, key, now, limOpts).store]
    /\ UNCHANGED <<limOpts, now, redis, checks, win, lastCheck, admitLog>>
    /\ UNCHANGED <<retryVars, requestVars, callbackVars, errorVars, sessionVars,
                   cleanupVars, procVars>>

\* the background sweep of the local limiter runs
Sweep ==
    /\ cleanupTask.state = "pending"
    /\ store' = Cleanup(store, now)
    /\ cleanupTask' = [cleanupTask EXCEPT !.sweptAfterDestroy = cleanupTask.destroys > 0]
    /\ lastUsage' = NoUsage
    /\ UNCHANGED <<limOpts, now, redis, checks, win, lastCheck>>
    /\ UNCHANGED <<retryVars, requestVars, callbackVars, errorVars, sessionVars, procVars, windowVars>>

\* RateLimiter.reset(key), line 82: store.pop(full_key, None)
reset(st, key) == [st EXCEPT ![key] = NoEntry]

\* RateLimiter.resetAll(), line 85: store.clear()
resetAll(st) == [k \in DOMAIN st |-> NoEntry]

\* a call reset(key) on the RateLimiter
Reset(key) ==
    /\ store' = reset(store, key)
    /\ unswept' = [unswept EXCEPT !.store = reset(unswept.store, key)]
    /\ lastUsage' = NoUsage
    /\ UNCHANGED <<limOpts, now, redis, checks, win, lastCheck, admitLog>>
    /\ UNCHANGED <<retryVars, requestVars, callbackVars, errorVars, sessionVars,
                   cleanupVars, procVars>>

\* a call resetAll() on the RateLimiter
ResetAll ==
    /\ store' = resetAll(store)
    /\ unswept' = [unswept EXCEPT !.store = resetAll(unswept.store)]
    /\ lastUsage' = NoUsage
    /\ UNCHANGED <<limOpts, now, redis, checks, win, lastCheck, admitLog>>
    /\ UNCHANGED <<retryVars, requestVars, callbackVars, errorVars, sessionVars,
                   cleanupVars, procVars>>

\* destroy() that forgets the task without cancelling it
destroyWithoutCancel(c) == [c EXCEPT !.handle = FALSE, !.destroys = @ + 1]

\* RateLimiter.destroy(), lines 99-102, on the cleanup task: cancel it if _cleanup_task
\* is set, and set _cleanup_task to None
destroy(c) ==
    [c EXCEPT !.state = IF c.handle THEN "cancelled" ELSE @, !.handle = FALSE,
              !.destroys = @ + 1]

\* RateLimiter.destroy(), lines 99-103
LimiterDestroy ==
    /\ cleanupTask.destroys < MaxDestroys
    /\ cleanupTask' = destroy(cleanupTask)
    /\ store' = [k \in Keys |-> NoEntry]
    /\ unswept' = [unswept EXCEPT !.store = [k \in Keys |-> NoEntry]]
    /\ lastUsage' = NoUsage
    /\ UNCHANGED <<limOpts, now, redis, checks, win, lastCheck, admitLog>>
    /\ UNCHANGED <<retryVars, requestVars, callbackVars, errorVars, sessionVars, procVars>>

\* ---- processes calling RedisRateLimiter.checkLimit on one key of a shared store ----
Procs == 1 .. MaxProcs
IdleProc == [pc |-> "idle", count |-> 0, life |-> 0, admitted |-> FALSE,
             retry_after |-> NoneVal]
NoLives == [cur |-> 0, admitted |-> [l \in 1 .. MaxChecks |-> 0], first |-> NoneVal]

\* the test of line 135 letting one more call through
OverLimitOffByOne(count, o) == count > o.maxRequests + 1

\* `if count > self.options["maxRequests"]`, line 135
OverLimit(count, o) == count > o.maxRequests

\* the call of process p goes on after its last store operation before line 135: it
\* returns (admitted, counted in the life of the key its increment fell in), or it is
\* over the limit and goes to read the ttl key
Decide(p, count, life) ==
    IF OverLimit(count, limOpts)
    THEN /\ procs' = [procs EXCEPT ![p] = [IdleProc EXCEPT !.pc = "get", !.count = count,
                                                            !.life = life]]
         /\ UNCHANGED lives
    ELSE /\ procs' = [procs EXCEPT ![p] = [IdleProc EXCEPT !.pc = "done", !.count = count,
                                                            !.life = life, !.admitted = TRUE]]
         /\ lives' = [lives EXCEPT !.admitted[life] = @ + 1]

ProcSteps ==
    /\ UNCHANGED <<limOpts, now, store, win, lastCheck, lastUsage, coros>>
    /\ UNCHANGED <<retryVars, requestVars, callbackVars, errorVars, sessionVars, cleanupVars, windowVars>>

\* process p calls checkLimit: `count = await self.redis.incr(full_key)`, line 127; an
\* increment that returns 1 starts a life of the counter
IncrStep(p, stamped) ==
    LET full_key == <<SharedKey, "count">>
        r1 == RedisIncr(redis, full_key, now)
        count == r1[full_key].value
        life == IF count = 1 THEN lives.cur + 1 ELSE lives.cur
    IN  /\ procs[p].pc \in {"idle", "done"}
        /\ checks < MaxChecks
        /\ checks' = checks + 1
        /\ redis' = r1
        /\ IF SetsExpiry(count)
           THEN /\ procs' = [procs EXCEPT ![p] = [IdleProc EXCEPT !.pc = "expire",
                                                   !.count = count, !.life = life]]
                /\ lives' = [lives EXCEPT !.cur = life,
                                          !.first = IF stamped /\ count = 1 THEN now ELSE @]
           ELSE Decide(p, count, life)
        /\ ProcSteps

ProcIncr(p) == IncrStep(p, FALSE)

\* the same step, keeping the time of the first increment of the key's life in lives.first
ProcIncrAt(p) == IncrStep(p, TRUE)

\* `await self.redis.expire(full_key, (windowMs + 999) // 1000)`, lines 129-133
ProcExpire(p) ==
    /\ procs[p].pc = "expire"
    /\ redis' = RedisExpire(redis, <<SharedKey, "count">>, CeilSeconds(limOpts.windowMs), now)
    /\ Decide(p, procs[p].count, procs[p].life)
    /\ UNCHANGED checks
    /\ ProcSteps

\* `ttl = await self.redis.get(ttl_key)` and the raise, lines 136-147
ProcGet(p) ==
    LET ttl == RedisGet(redis, <<SharedKey, "ttl">>, now) IN
    /\ procs[p].pc = "get"
    /\ procs' = [procs EXCEPT ![p] = [@ EXCEPT !.pc = "done", !.admitted = FALSE,
                      !.retry_after = RetryAfter(ttl, limOpts)]]
    /\ UNCHANGED <<redis, checks, lives>>
    /\ ProcSteps

\* a call RedisRateLimiter.reset(SharedKey), lines 149-151
ProcReset ==
    /\ \E outcome \in SetOutcomes :
          redis' = RedisSet(redis, <<SharedKey, "count">>, 0, now, outcome)
    /\ UNCHANGED <<procs, lives, checks>>
    /\ ProcSteps

(***************************************************************************)
(* Request executor: MpesaClient.makeRequest, client/mpesa_client.py       *)
(***************************************************************************)
\* a response body without any of the recognised fields: {}
EmptyBody == [retryAfter |-> NoneVal, errorCode |-> "none"]

\* parse_mpesa_api_error without the 403 branch, and with `>` for `>=` at 500
parse_mpesa_api_errorGaps(status_code, response_body) ==
    LET error_code == IF response_body.errorCode # "none" THEN response_body.errorCode
                      ELSE "UNKNOWN_ERROR"
    IN  IF status_code = 401 THEN MpesaAuthError(response_body)
        ELSE IF status_code = 400 THEN MpesaValidationError(response_body)
        ELSE IF status_code = 429
             THEN MpesaRateLimitError(response_body.retryAfter, response_body)
        ELSE IF status_code > 500 THEN MpesaNetworkError(TRUE, response_body)
        ELSE MpesaApiError(error_code, status_code, response_body)

\* parse_mpesa_api_error(status_code, response_body), utils/errors.py
parse_mpesa_api_error(status_code, response_body) ==
    LET error_code == IF response_body.errorCode # "none" THEN response_body.errorCode
                      ELSE "UNKNOWN_ERROR"
    IN  IF status_code = 401 THEN MpesaAuthError(response_body)
        ELSE IF status_code = 403 THEN MpesaAuthError(response_body)
        ELSE IF status_code = 400 THEN MpesaValidationError(response_body)
        ELSE IF status_code = 429
             THEN MpesaRateLimitError(response_body.retryAfter, response_body)
        ELSE IF status_code >= 500 THEN MpesaNetworkError(TRUE, response_body)
        ELSE MpesaApiError(error_code, status_code, response_body)

\* the statuses and bodies a response can carry
StatusCodes ==
    {100, 200, 204, 301, 302, 399, 400, 401, 402, 403, 404, 408, 409, 422, 428, 429, 430,
     499, 500, 501, 502, 503, 504, 599}
ResponseBodies == [retryAfter : {NoneVal, 0, 30}, errorCode : {"none", "400.002.02"}]

\* a caller translates the response apiCall
ParseApiError ==
    /\ apiError = NoError
    /\ apiError' = parse_mpesa_api_error(apiCall.status_code, apiCall.response_body)
    /\ UNCHANGED <<apiCall, delayCall, extraction>>
    /\ UNCHANGED <<retryVars, requestVars, limiterVars, callbackVars, sessionVars, sideVars>>

\* what auth.getAccessToken() can give _request: the token, or what its own
\* retryWithBackoff raised (utils/auth.py, lines 73-97)
TokenOutcomes ==
    { Returned(1), Raised(TypeError),
      Raised(MpesaNetworkError(TRUE, OtherError("ConnectError", "ConnectError", "none"))) }

\* what session.post can do: a response (status, body parseable as JSON or not), the
\* per-attempt deadline, or another transport exception
PostOutcomes ==
    [kind : {"response"}, status : {200, 400, 401, 403, 500}, json : BOOLEAN]
    \cup { [kind |-> "timeout", status |-> 0, json |-> FALSE],
           [kind |-> "exception", status |-> 0, json |-> FALSE] }

\* ---- the connection session: _get_session and destroy ----
NoSession ==
    [cur |-> 0, open |-> {}, opened |-> 0, used |-> {}, before |-> 0, destroys |-> 0]

\* _get_session opening a session on every call
get_sessionPerCall(s) ==
    [s EXCEPT !.cur = s.opened + 1, !.open = @ \cup {s.opened + 1}, !.opened = @ + 1]

\* MpesaClient._get_session, lines 69-73: open a session if there is none or it is
\* closed, else reuse self._session.  The coroutine has no await inside: it is atomic
get_session(s) ==
    IF s.cur = 0 \/ s.cur \notin s.open
    THEN [s EXCEPT !.cur = s.opened + 1, !.open = @ \cup {s.opened + 1}, !.opened = @ + 1]
    ELSE s

\* line 89 of _request: session = await self._get_session(), then the attempt posts on it
Acquire(s) ==
    LET g == get_session(s) IN [g EXCEPT !.used = @ \cup {g.cur}]

\* the session part of MpesaClient.destroy, lines 437-438
CloseSession(s) ==
    [s EXCEPT !.open = IF s.cur # 0 /\ s.cur \in s.open THEN @ \ {s.cur} ELSE @,
              !.used = {}, !.before = s.opened, !.destroys = @ + 1]

\* no session.post was made
NoPost == [kind |-> "none", status |-> 0, json |-> FALSE]

\* lines 91-120 of _request for the transport outcome resp
PostResult(resp) ==
    IF resp.kind = "timeout" THEN Raised(MpesaTimeoutError(Details("none")))
    ELSE IF resp.kind = "exception"
    THEN Raised(MpesaNetworkError(TRUE, OtherError("ClientError", "ClientError", "none")))
    ELSE IF ~(200 <= resp.status /\ resp.status < 300) /\ ~resp.json
    THEN Raised(MpesaNetworkError(TRUE, parse_mpesa_api_error(resp.status, EmptyBody)))
    ELSE IF ~resp.json
    THEN Raised(MpesaNetworkError(TRUE,
                    OtherError("JSONDecodeError", "JSONDecodeError", "none")))
    ELSE Returned(resp.status)

\* makeRequest(endpoint, payload, ratelimitKey) is called: retryWithBackoff(_request,
\* self.retryOptions) starts
RequestStart ==
    /\ pc \in {"idle", "done"}
    /\ requests < MaxRequestCalls
    /\ requests' = requests + 1
    /\ \E k \in Keys \cup {NoKey} : rlKey' = k
    /\ pc' = "attempt"
    /\ attempt' = 0
    /\ failLog' = <<>>
    /\ calls' = 0
    /\ onRetryLog' = <<>>
    /\ sleepLog' = <<>>
    /\ result' = NoResult
    /\ checkCalls' = 0
    /\ tokenFetches' = 0
    /\ posts' = 0
    /\ lastPost' = NoPost
    /\ UNCHANGED <<opts, limiterKind>>
    /\ UNCHANGED <<limiterVars, callbackVars, otherVars>>

\* a makeRequest that checks the limit before its first attempt only
ChecksLimitOncePerCall(kind, key, att) == kind # "none" /\ key # NoKey /\ att = 0

\* `if self.ratelimiter and ratelimitKey`, line 82, inside _request: evaluated by every
\* attempt att of the retry loop alike
ChecksLimit(kind, key, att) == kind # "none" /\ key # NoKey

\* one invocation of _request by the retry loop, with the loop's handling of its failure
RequestAttempt ==
    LET limited == ChecksLimit(limiterKind, rlKey, attempt)
        chk == IF limiterKind = "local" THEN LocalCheckLimit(store, rlKey, now, limOpts)
               ELSE RedisCheckLimit(redis, rlKey, now, limOpts)
    IN  /\ pc = "attempt"
        /\ calls' = calls + 1
        /\ checkCalls' = IF limited THEN checkCalls + 1 ELSE checkCalls
        /\ store' = IF limited /\ limiterKind = "local" THEN chk.store ELSE store
        /\ redis' = IF limited /\ limiterKind = "redis" THEN chk.redis ELSE redis
        /\ unswept' = IF limited /\ limiterKind = "local"
                      THEN [unswept EXCEPT
                              !.store = LocalCheckLimit(unswept.store, rlKey, now, limOpts).store]
                      ELSE unswept
        /\ \E j \in JitterDraws :
             IF limited /\ ~chk.admitted
             THEN /\ HandleFailure(chk.error, j)
                  /\ UNCHANGED <<tokenFetches, posts, lastPost, session>>
             ELSE \E tok \in TokenOutcomes :
                    /\ tokenFetches' = tokenFetches + 1
                    /\ IF tok.raised
                       THEN /\ HandleFailure(tok.error, j)
                            /\ UNCHANGED <<posts, lastPost, session>>
                       ELSE \E resp \in PostOutcomes :
                              /\ posts' = posts + 1
                              /\ lastPost' = resp
                              /\ session' = Acquire(session)
                              /\ IF PostResult(resp).raised
                                 THEN HandleFailure(PostResult(resp).error, j)
                                 ELSE /\ result' = ResultReturned(PostResult(resp).value)
                                      /\ pc' = "done"
                                      /\ UNCHANGED <<failLog, onRetryLog, sleepLog>>
        /\ UNCHANGED <<opts, attempt, limiterKind, rlKey, requests>>
        /\ UNCHANGED <<limOpts, now, checks, win, lastCheck, lastUsage>>
        /\ UNCHANGED <<callbackVars, errorVars, tasks, cleanupVars, procVars, admitLog>>

\* ---- concurrent makeRequest calls (without ratelimitKey) and destroy() ----
Tasks == 1 .. MaxTasks
IdleTask == [pc |-> "idle", attempt |-> 0]
ClientSteps(t) ==
    /\ UNCHANGED <<retryVars, requestVars, limiterVars, callbackVars, errorVars, sideVars>>
    /\ tasks[t].attempt <= MaxRetriesBound

\* task t calls makeRequest: retryWithBackoff starts _request, which gets the cached token
TaskStart(t) ==
    /\ tasks[t].pc = "idle"
    /\ tasks' = [tasks EXCEPT ![t] = [pc |-> "acquire", attempt |-> 0]]
    /\ UNCHANGED session
    /\ ClientSteps(t)

\* _request of task t reaches line 89 and starts session.post on the session it got
TaskAcquire(t) ==
    /\ tasks[t].pc = "acquire"
    /\ session' = Acquire(session)
    /\ tasks' = [tasks EXCEPT ![t].pc = "post"]
    /\ ClientSteps(t)

\* the post of task t ends: makeRequest returns or raises (done), or the retry loop
\* sleeps and starts another attempt
TaskPostEnds(t) ==
    /\ tasks[t].pc = "post"
    /\ \/ tasks' = [tasks EXCEPT ![t].pc = "done"]
       \/ /\ tasks[t].attempt < MaxRetriesBound
          /\ tasks' = [tasks EXCEPT ![t] = [pc |-> "acquire", attempt |-> @.attempt + 1]]
    /\ UNCHANGED session
    /\ ClientSteps(t)

\* MpesaClient.destroy(), lines 436-441: close the session if open; a local RateLimiter is
\* destroyed (its store cleared)
Destroy ==
    /\ session.destroys < MaxDestroys
    /\ cleanupTask.destroys < MaxDestroys
    /\ session' = CloseSession(session)
    /\ store' = IF limiterKind = "local" THEN [k \in Keys |-> NoEntry] ELSE store
    /\ cleanupTask' = IF limiterKind = "local" THEN destroy(cleanupTask) ELSE cleanupTask
    /\ unswept' = IF limiterKind = "local"
                  THEN [unswept EXCEPT !.store = [k \in Keys |-> NoEntry]] ELSE unswept
    /\ UNCHANGED <<tasks, admitLog>>
    /\ UNCHANGED <<limOpts, now, redis, checks, win, lastCheck, lastUsage>>
    /\ UNCHANGED <<retryVars, requestVars, callbackVars, errorVars, procVars>>

(***************************************************************************)
(* Callback engine: utils/callback.py, the MpesaClient.handle* methods and *)
(* the Django webhook views                                                *)
(***************************************************************************)
SAFARICOM_IPS ==
    {"196.201.214.200", "196.201.214.206", "196.201.213.114", "196.201.214.207",
     "196.201.214.208", "196.201.213.44", "196.201.212.127", "196.201.212.138",
     "196.201.212.129", "196.201.212.136", "196.201.212.74", "196.201.212.69"}

HandlerNames ==
    {"on_success", "on_failure", "on_callback", "on_c2b_confirmation", "on_c2b_validation",
     "on_b2c_result", "on_b2b_result", "on_account_balance", "on_transaction_status",
     "on_reversal"}

\* what a handler attribute holds: None, a plain function, a coroutine function, or the
\* callbackOptions dict MpesaClient.__init__ passes as the first positional argument
HookStyles == {"none", "sync", "async", "dict"}
NoHooks == [n \in HandlerNames |-> "none"]

\* MpesaCallbackHandler.__init__: `allowed_ips or self.SAFARICOM_IPS`.  is_duplicate is
\* None, a function or a coroutine function; dupIds are the ids the caller's predicate
\* reports as already seen
MpesaCallbackHandler(hooks, validate_ip, allowed_ips, is_duplicate, dupIds) ==
    [hooks |-> hooks, validate_ip |-> validate_ip,
     allowed_ips |-> IF allowed_ips = {} THEN SAFARICOM_IPS ELSE allowed_ips,
     is_duplicate |-> is_duplicate, dupIds |-> dupIds]

\* ip_address is None
NoneIp == "None"
\* `if ip_address`
IpTruthy(ip) == ip # NoneIp /\ ip # ""

validate_callback_ip(h, ip_address) ==
    IF ~h.validate_ip THEN TRUE ELSE ip_address \in h.allowed_ips

\* create_callback_response(success, message); message "" stands for None
create_callback_response(success, message) ==
    [kind |-> "ack", ResultCode |-> IF success THEN 0 ELSE 1,
     ResultDesc |-> IF message # "" THEN message
                    ELSE IF success THEN "Accepted" ELSE "Rejected",
     error |-> "none", internal |-> "none"]

\* MpesaCallbackHandler.ERROR_MESSAGES, lines 149-160
ERROR_MESSAGES ==
    [c \in {0} |-> "Success"]
    @@ [c \in {1} |-> "Insufficient funds in M-Pesa account"]
    @@ [c \in {17} |-> "User cancelled the transaction"]
    @@ [c \in {26} |-> "System internal error"]
    @@ [c \in {1001} |-> "Unable to lock subscriber, a transaction is already in process"]
    @@ [c \in {1019} |-> "Transaction expired. No response from user"]
    @@ [c \in {1032} |-> "Request cancelled by user"]
    @@ [c \in {1037} |-> "Timeout in sending PIN request"]
    @@ [c \in {2001} |-> "Wrong PIN entered"]
    @@ [c \in {9999} |-> "Request cancelled by user"]

\* a message: its text, and the number formatted at its end (NoneVal if none)
Message(text, n) == [text |-> text, n |-> n]
\* error_message = None
NoMessage == Message("None", NoneVal)

\* get_error_message without the table lookup
get_error_messageDefaultOnly(result_code) ==
    Message("Transaction failed with code: ", result_code)

\* get_error_message(result_code), lines 201-206: the table entry, or the default
\* f"Transaction failed with code: {result_code}"
get_error_message(result_code) ==
    IF result_code \in DOMAIN ERROR_MESSAGES
    THEN Message(ERROR_MESSAGES[result_code], NoneVal)
    ELSE Message("Transaction failed with code: ", result_code)

\* the fields every result parser computes from ResultCode
Outcome(parser, result_code) ==
    [parser |-> parser, result_code |-> result_code,
     is_success |-> (result_code = 0),
     error_message |-> IF result_code # 0 THEN get_error_message(result_code)
                       ELSE NoMessage]

\* parse_callback(callback), lines 219-238: callback["Body"]["stkCallback"]
parse_callback(p) == Outcome("parse_callback", p.result_code)
\* parse_c2b_callback(callback), lines 255-268: no result code
parse_c2b_callback(p) ==
    [parser |-> "parse_c2b_callback", result_code |-> NoneVal, is_success |-> TRUE,
     error_message |-> NoMessage]
\* parse_b2c_callback(callback), lines 270-293
parse_b2c_callback(p) == Outcome("parse_b2c_callback", p.result_code)
\* parse_b2b_callback(callback), lines 295-314
parse_b2b_callback(p) == Outcome("parse_b2b_callback", p.result_code)
\* parse_account_balance_callback(callback), lines 316-337
parse_account_balance_callback(p) ==
    Outcome("parse_account_balance_callback", p.result_code)
\* parse_transaction_status_callback(callback), lines 339-361
parse_transaction_status_callback(p) ==
    Outcome("parse_transaction_status_callback", p.result_code)
\* parse_reversal_callback(callback), lines 363-371
parse_reversal_callback(p) == Outcome("parse_reversal_callback", p.result_code)

\* ---- metadata extraction: the {Name/Key, Value} items of a result payload ----
\* a JSON value: an integer, the decimal string of an integer, or no value at all
IntValue(n) == [t |-> "int", v |-> n]
StrValue(n) == [t |-> "str", v |-> n]
NoValue == [t |-> "none", v |-> NoneVal]
\* float(value), str(value) and format_transaction_date(str(value)), lines 207-217, of an
\* integer or a numeric string: the number, its decimal string, the date it spells
float(x) == [t |-> "float", v |-> x.v]
str(x) == [t |-> "str", v |-> x.v]
format_transaction_date(x) == [t |-> "date", v |-> x.v]
Convert(type, x) ==
    CASE type = "float" -> float(x)
      [] type = "str" -> str(x)
      [] type = "date" -> format_transaction_date(str(x))

\* the if/elif chains of _extract_metadata (lines 246-253) and of the ResultParameter loops
\* (lines 284-291, 309-312, 330-335, 354-359): item name -> outcome field, its conversion
MetadataFields ==
    [parse_callback |->
        [Amount |-> <<"amount", "float">>,
         MpesaReceiptNumber |-> <<"mpesa_receipt_number", "str">>,
         TransactionDate |-> <<"transaction_date", "date">>,
         PhoneNumber |-> <<"phone_number", "str">>],
     parse_b2c_callback |->
        [TransactionReceipt |-> <<"transaction_id", "str">>,
         TransactionAmount |-> <<"amount", "float">>,
         ReceiverPartyPublicName |-> <<"recipient_phone", "str">>,
         B2CChargesPaidAccountAvailableFunds |-> <<"charges", "float">>],
     parse_b2b_callback |->
        [TransactionReceipt |-> <<"transaction_id", "str">>,
         TransactionAmount |-> <<"amount", "float">>],
     parse_account_balance_callback |->
        [WorkingAccountAvailableFunds |-> <<"working_balance", "float">>,
         AvailableBalance |-> <<"available_balance", "float">>,
         BookedBalance |-> <<"booked_balance", "float">>],
     parse_transaction_status_callback |->
        [ReceiptNo |-> <<"receipt_no", "str">>,
         TransactionAmount |-> <<"amount", "float">>,
         TransCompletedTime |-> <<"completed_time", "str">>]]

\* the optional fields of a parser's outcome, all None when it is constructed
Unset(parser) ==
    [f \in {MetadataFields[parser][n][1] : n \in DOMAIN MetadataFields[parser]} |-> NoValue]

\* an extraction loop that ends at the first item whose name it does not know
ExtractUntilUnknown(items, out, table) ==
    LET known == {i \in 1 .. Len(items) :
                     \A j \in 1 .. i : items[j].name \in DOMAIN table}
        last(f) == {i \in known : table[items[i].name][1] = f
                        /\ \A j \in known : table[items[j].name][1] = f => j <= i}
    IN  [f \in DOMAIN out |->
            IF last(f) = {} THEN out[f]
            ELSE LET i == CHOOSE i \in last(f) : TRUE
                 IN  Convert(table[items[i].name][2], items[i].value)]

\* `for item in metadata.get("Item", [])` with its if/elif chain: each item in turn sets
\* the field its name selects, and an item of another name sets nothing
RECURSIVE ExtractItems(_, _, _)
ExtractItems(items, out, table) ==
    IF items = <<>> THEN out
    ELSE LET item == Head(items)
         IN  ExtractItems(Tail(items),
                          IF item.name \in DOMAIN table
                          THEN [out EXCEPT ![table[item.name][1]] =
                                   Convert(table[item.name][2], item.value)]
                          ELSE out,
                          table)

\* the metadata part of a result parser: `if result_code == 0 and "CallbackMetadata" in
\* stk_callback` (line 233; lines 279, 304, 325, 349 for the other parsers)
ExtractFields(parser, result_code, items) ==
    IF result_code = 0
    THEN ExtractItems(items, Unset(parser), MetadataFields[parser])
    ELSE Unset(parser)

\* what Safaricom sends beside the documented items: an item the parsers do not know,
\* which carries no Value
UnknownItem == [name |-> "Balance", value |-> NoValue]
ItemsOf(parser) ==
    [name : DOMAIN MetadataFields[parser], value : {IntValue(1), StrValue(2)}]
    \cup {UnknownItem}
RECURSIVE ListsOf(_, _)
ListsOf(S, n) ==
    IF n = 0 THEN {<<>>}
    ELSE ListsOf(S, n - 1) \cup {Append(l, x) : l \in ListsOf(S, n - 1), x \in S}

NoExtraction ==
    [parser |-> "none", result_code |-> NoneVal, items |-> <<>>, done |-> FALSE,
     fields |-> <<>>]

\* the parser runs on the payload
ParseMetadata ==
    /\ ~extraction.done
    /\ extraction' = [extraction EXCEPT
                         !.done = TRUE,
                         !.fields = ExtractFields(extraction.parser, extraction.result_code,
                                                  extraction.items)]
    /\ UNCHANGED <<apiCall, apiError, delayCall>>
    /\ UNCHANGED <<retryVars, requestVars, limiterVars, callbackVars, sessionVars, sideVars>>

Parsers ==
    {"parse_callback", "parse_c2b_callback", "parse_b2c_callback", "parse_b2b_callback",
     "parse_account_balance_callback", "parse_transaction_status_callback",
     "parse_reversal_callback"}
\* the parser named `parser` applied to the payload
Parse(parser, p) ==
    CASE parser = "parse_callback" -> parse_callback(p)
      [] parser = "parse_c2b_callback" -> parse_c2b_callback(p)
      [] parser = "parse_b2c_callback" -> parse_b2c_callback(p)
      [] parser = "parse_b2b_callback" -> parse_b2b_callback(p)
      [] parser = "parse_account_balance_callback" -> parse_account_balance_callback(p)
      [] parser = "parse_transaction_status_callback"
           -> parse_transaction_status_callback(p)
      [] parser = "parse_reversal_callback" -> parse_reversal_callback(p)
\* no parser has returned
NoParsed ==
    [parser |-> "none", result_code |-> NoneVal, is_success |-> FALSE,
     error_message |-> NoMessage]

\* an exception leaves the entry point: the transport gets no acknowledgment
Propagated(e) ==
    [kind |-> "exception", ResultCode |-> NoneVal, ResultDesc |-> "", error |-> e,
     internal |-> "none"]
NoAck ==
    [kind |-> "none", ResultCode |-> NoneVal, ResultDesc |-> "", error |-> "none",
     internal |-> "none"]

\* how a step of the engine ends: what it invoked, and its value or exception
Done(log, value) == [log |-> log, raised |-> FALSE, error |-> "none", value |-> value]
Fail(log, e) == [log |-> log, raised |-> TRUE, error |-> e, value |-> FALSE]

\* invoking the handler attribute `name`; `bad` is the callee that raises when invoked.
\* mode "maybe": the result is awaited only if awaitable; mode "await": `await name(...)`
Call(h, name, bad, mode) ==
    IF h.hooks[name] = "dict" THEN Fail(<<>>, "TypeError")
    ELSE IF bad = name THEN Fail(<<name>>, "HandlerError")
    ELSE IF mode = "await" /\ h.hooks[name] = "sync" THEN Fail(<<name>>, "TypeError")
    ELSE Done(<<name>>, TRUE)

\* handle_callback without the `return` of the duplicate branch
handle_callbackDispatchesDuplicate(h, p, ip, bad) ==
    IF IpTruthy(ip) /\ ~validate_callback_ip(h, ip) THEN Fail(<<>>, "ValueError")
    ELSE IF p.shape # "ok" THEN Fail(<<"parse_callback">>, "KeyError")
    ELSE IF h.is_duplicate # "none" /\ bad = "is_duplicate"
    THEN Fail(<<"parse_callback", "is_duplicate raised">>, "HandlerError")
    ELSE
      LET l1 == IF h.is_duplicate = "none" THEN <<"parse_callback">>
                ELSE IF p.id \in h.dupIds THEN <<"parse_callback", "is_duplicate is True">>
                ELSE <<"parse_callback", "is_duplicate is False">>
          c1 == IF h.hooks["on_callback"] # "none" THEN Call(h, "on_callback", bad, "maybe")
                ELSE Done(<<>>, TRUE)
          which == IF parse_callback(p).is_success THEN "on_success" ELSE "on_failure"
          c2 == IF h.hooks[which] # "none" THEN Call(h, which, bad, "maybe")
                ELSE Done(<<>>, TRUE)
      IN  IF c1.raised THEN Fail(l1 \o c1.log, c1.error)
          ELSE IF c2.raised THEN Fail(l1 \o c1.log \o c2.log, c2.error)
          ELSE Done(l1 \o c1.log \o c2.log, TRUE)

\* handle_callback with `if` in place of `elif` and the outcome test dropped from the second
\* branch: on_failure is dispatched after on_success
handle_callbackBothOutcomes(h, p, ip, bad) ==
    IF IpTruthy(ip) /\ ~validate_callback_ip(h, ip) THEN Fail(<<>>, "ValueError")
    ELSE IF p.shape # "ok" THEN Fail(<<"parse_callback">>, "KeyError")
    ELSE IF h.is_duplicate # "none" /\ bad = "is_duplicate"
    THEN Fail(<<"parse_callback", "is_duplicate raised">>, "HandlerError")
    ELSE IF h.is_duplicate # "none" /\ p.id \in h.dupIds
    THEN Done(<<"parse_callback", "is_duplicate is True">>, TRUE)
    ELSE
      LET l1 == IF h.is_duplicate # "none"
                THEN <<"parse_callback", "is_duplicate is False">>
                ELSE <<"parse_callback">>
          c1 == IF h.hooks["on_callback"] # "none" THEN Call(h, "on_callback", bad, "maybe")
                ELSE Done(<<>>, TRUE)
          c2 == IF parse_callback(p).is_success /\ h.hooks["on_success"] # "none"
                THEN Call(h, "on_success", bad, "maybe")
                ELSE Done(<<>>, TRUE)
          c3 == IF h.hooks["on_failure"] # "none" THEN Call(h, "on_failure", bad, "maybe")
                ELSE Done(<<>>, TRUE)
      IN  IF c1.raised THEN Fail(l1 \o c1.log, c1.error)
          ELSE IF c2.raised THEN Fail(l1 \o c1.log \o c2.log, c2.error)
          ELSE IF c3.raised THEN Fail(l1 \o c1.log \o c2.log \o c3.log, c3.error)
          ELSE Done(l1 \o c1.log \o c2.log \o c3.log, TRUE)

\* MpesaCallbackHandler.handle_callback(callback, ip_address), lines 373-417
handle_callback(h, p, ip, bad) ==
    IF IpTruthy(ip) /\ ~validate_callback_ip(h, ip) THEN Fail(<<>>, "ValueError")
    ELSE IF p.shape # "ok" THEN Fail(<<"parse_callback">>, "KeyError")
    ELSE IF h.is_duplicate # "none" /\ bad = "is_duplicate"
    THEN Fail(<<"parse_callback", "is_duplicate raised">>, "HandlerError")
    ELSE IF h.is_duplicate # "none" /\ p.id \in h.dupIds
    THEN Done(<<"parse_callback", "is_duplicate is True">>, TRUE)
    ELSE
      LET l1 == IF h.is_duplicate # "none"
                THEN <<"parse_callback", "is_duplicate is False">>
                ELSE <<"parse_callback">>
          c1 == IF h.hooks["on_callback"] # "none" THEN Call(h, "on_callback", bad, "maybe")
                ELSE Done(<<>>, TRUE)
          which == IF parse_callback(p).is_success THEN "on_success" ELSE "on_failure"
          c2 == IF h.hooks[which] # "none" THEN Call(h, which, bad, "maybe")
                ELSE Done(<<>>, TRUE)
      IN  IF c1.raised THEN Fail(l1 \o c1.log, c1.error)
          ELSE IF c2.raised THEN Fail(l1 \o c1.log \o c2.log, c2.error)
          ELSE Done(l1 \o c1.log \o c2.log, TRUE)

\* handle_c2b_validation(callback), lines 419-428; verdict is what on_c2b_validation returns
handle_c2b_validation(h, p, bad, verdict) ==
    IF p.shape # "ok" THEN Fail(<<"parse_c2b_callback">>, "KeyError")
    ELSE IF h.hooks["on_c2b_validation"] # "none"
    THEN LET c == Call(h, "on_c2b_validation", bad, "await")
         IN  IF c.raised THEN Fail(<<"parse_c2b_callback">> \o c.log, c.error)
             ELSE Done(<<"parse_c2b_callback">> \o c.log, verdict)
    ELSE Done(<<"parse_c2b_callback">>, TRUE)

\* handle_c2b_confirmation(callback), lines 430-438
handle_c2b_confirmation(h, p, bad) ==
    IF p.shape # "ok" THEN Fail(<<"parse_c2b_callback">>, "KeyError")
    ELSE IF h.hooks["on_c2b_confirmation"] # "none"
    THEN LET c == Call(h, "on_c2b_confirmation", bad, "maybe")
         IN  IF c.raised THEN Fail(<<"parse_c2b_callback">> \o c.log, c.error)
             ELSE Done(<<"parse_c2b_callback">> \o c.log, TRUE)
    ELSE Done(<<"parse_c2b_callback">>, TRUE)

\* the body shared by the result callbacks: parsed = parser(callback); if the hook is
\* set, invoke it; the value is parsed.is_success
ResultFlow(h, p, parser, hook, mode, bad) ==
    IF p.shape # "ok" THEN Fail(<<parser>>, "KeyError")
    ELSE IF h.hooks[hook] # "none"
    THEN LET c == Call(h, hook, bad, mode)
         IN  IF c.raised THEN Fail(<<parser>> \o c.log, c.error)
             ELSE Done(<<parser>> \o c.log, Parse(parser, p).is_success)
    ELSE Done(<<parser>>, Parse(parser, p).is_success)

\* ---- deliveries ----
Ids == {"ws_1", "ws_2"}
ResultCodes == {0, 1, 2, 1032}
SourceIps == {NoneIp, "", "196.201.214.200", "10.0.0.1", "203.0.113.7"}
\* the payload as the entry point gets it: well formed, lacking a required field, or
\* (for a view, which reads request.body) not JSON at all
Payloads ==
    [shape : {"ok"}, result_code : ResultCodes, id : Ids]
    \cup [shape : {"missing", "notjson"}, result_code : {0}, id : {"ws_1"}]
DictPayloads == {p \in Payloads : p.shape # "notjson"}
NoRequest == [entry |-> "none", payload |-> [shape |-> "ok", result_code |-> 0, id |-> "ws_1"],
              ip |-> NoneIp]
Callees == HandlerNames \cup {"is_duplicate", "none"}

\* the gateway delivers a callback to an entry point, and re-delivers the same one: the
\* engine keeps nothing between deliveries, so a delivery's outcome depends on the
\* handler and the delivery alone
Accept(entry) ==
    /\ deliveries < MaxDeliveries
    /\ deliveries = 0 \/ cbReq.entry = entry
PayloadsAt(S) == IF deliveries = 0 THEN S ELSE {cbReq.payload}
IpsAt == IF deliveries = 0 THEN SourceIps ELSE {cbReq.ip}

\* the delivery ends: r is how the engine's flow ended (cbResult.internal keeps the
\* exception raised inside it, "none" if none), res is what the entry point made of it
Finish(entry, p, ip, r, res) ==
    /\ cbReq' = [entry |-> entry, payload |-> p, ip |-> ip]
    /\ cbLog' = r.log
    /\ cbResult' = [res EXCEPT !.internal = r.error]
    /\ parsed' = IF p.shape = "ok" /\ r.log # <<>> /\ r.log[1] \in Parsers
                 THEN Parse(r.log[1], p)
                 ELSE NoParsed
    /\ deliveries' = deliveries + 1
    /\ UNCHANGED <<handler, cbOptions>>
    /\ UNCHANGED <<retryVars, requestVars, limiterVars, otherVars>>

\* MpesaClient.handleStkCallback(callback, ipAddress), lines 366-371
handleStkCallback ==
    /\ Accept("handleStkCallback")
    /\ \E p \in PayloadsAt(DictPayloads), ip \in IpsAt, bad \in Callees :
          LET r == handle_callback(handler, p, ip, bad) IN
          Finish("handleStkCallback", p, ip, r,
                  IF r.raised THEN create_callback_response(FALSE, "Internal Error")
                  ELSE create_callback_response(TRUE, ""))

\* MpesaClient.handleC2BValidation(callback), lines 373-380
handleC2BValidation ==
    /\ Accept("handleC2BValidation")
    /\ \E p \in PayloadsAt(DictPayloads), ip \in IpsAt, bad \in Callees, verdict \in BOOLEAN :
          LET r == handle_c2b_validation(handler, p, bad, verdict) IN
          Finish("handleC2BValidation", p, ip, r,
                  IF r.raised THEN create_callback_response(FALSE, "Validation Failed")
                  ELSE create_callback_response(r.value,
                           IF r.value THEN "Accepted" ELSE "Rejected"))

\* MpesaClient.handleC2BConfirmation(callback), lines 382-388
handleC2BConfirmation ==
    /\ Accept("handleC2BConfirmation")
    /\ \E p \in PayloadsAt(DictPayloads), ip \in IpsAt, bad \in Callees :
          LET r == handle_c2b_confirmation(handler, p, bad) IN
          Finish("handleC2BConfirmation", p, ip, r,
                  IF r.raised THEN create_callback_response(FALSE, "Processing Failed")
                  ELSE create_callback_response(TRUE, ""))

\* the MpesaClient result-callback methods: try the flow, acknowledge parsed.is_success,
\* and on any exception acknowledge "Processing Failed"
ClientResult(entry, parser, hook) ==
    /\ Accept(entry)
    /\ \E p \in PayloadsAt(DictPayloads), ip \in IpsAt, bad \in Callees :
          LET r == ResultFlow(handler, p, parser, hook, "await", bad) IN
          Finish(entry, p, ip, r,
                  IF r.raised THEN create_callback_response(FALSE, "Processing Failed")
                  ELSE create_callback_response(r.value, ""))

\* MpesaClient.handleB2CCallback, lines 396-404
handleB2CCallback == ClientResult("handleB2CCallback", "parse_b2c_callback", "on_b2c_result")

\* MpesaClient.handleAccountBalanceCallback, lines 406-414
handleAccountBalanceCallback ==
    ClientResult("handleAccountBalanceCallback", "parse_account_balance_callback",
                 "on_account_balance")

\* MpesaClient.handleTransactionStatusCallback, lines 416-424
handleTransactionStatusCallback ==
    ClientResult("handleTransactionStatusCallback", "parse_transaction_status_callback",
                 "on_transaction_status")

\* MpesaClient.handleReversalCallback, lines 426-434
handleReversalCallback ==
    ClientResult("handleReversalCallback", "parse_reversal_callback", "on_reversal")

\* views.stk_callback, lines 130-137: ip_address = request.META.get("REMOTE_ADDR")
stk_callback ==
    /\ Accept("stk_callback")
    /\ \E p \in PayloadsAt(Payloads), ip \in IpsAt, bad \in Callees :
          LET r == handle_callback(handler, p, ip, bad) IN
          IF p.shape = "notjson"
           THEN Finish("stk_callback", p, ip, Fail(<<>>, "JSONDecodeError"),
                       Propagated("JSONDecodeError"))
           ELSE Finish("stk_callback", p, ip, r,
                       IF r.raised THEN Propagated(r.error)
                       ELSE create_callback_response(TRUE, ""))

\* views.c2b_validation, lines 140-146
c2b_validation ==
    /\ Accept("c2b_validation")
    /\ \E p \in PayloadsAt(Payloads), ip \in IpsAt, bad \in Callees, verdict \in BOOLEAN :
          LET r == handle_c2b_validation(handler, p, bad, verdict) IN
          IF p.shape = "notjson"
           THEN Finish("c2b_validation", p, ip, Fail(<<>>, "JSONDecodeError"),
                       Propagated("JSONDecodeError"))
           ELSE Finish("c2b_validation", p, ip, r,
                       IF r.raised THEN Propagated(r.error)
                       ELSE create_callback_response(r.value, ""))

\* views.c2b_confirmation, lines 149-155
c2b_confirmation ==
    /\ Accept("c2b_confirmation")
    /\ \E p \in PayloadsAt(Payloads), ip \in IpsAt, bad \in Callees :
          LET r == handle_c2b_confirmation(handler, p, bad) IN
          IF p.shape = "notjson"
           THEN Finish("c2b_confirmation", p, ip, Fail(<<>>, "JSONDecodeError"),
                       Propagated("JSONDecodeError"))
           ELSE Finish("c2b_confirmation", p, ip, r,
                       IF r.raised THEN Propagated(r.error)
                       ELSE create_callback_response(TRUE, ""))

\* the Django result views: json.loads, the flow with asyncio.iscoroutine, and
\* create_callback_response() whatever parsed.is_success is
ViewResult(entry, parser, hook) ==
    /\ Accept(entry)
    /\ \E p \in PayloadsAt(Payloads), ip \in IpsAt, bad \in Callees :
          LET r == ResultFlow(handler, p, parser, hook, "maybe", bad) IN
          IF p.shape = "notjson"
           THEN Finish(entry, p, ip, Fail(<<>>, "JSONDecodeError"),
                       Propagated("JSONDecodeError"))
           ELSE Finish(entry, p, ip, r,
                       IF r.raised THEN Propagated(r.error)
                       ELSE create_callback_response(TRUE, ""))

\* views.b2c_result, lines 158-168
b2c_result == ViewResult("b2c_result", "parse_b2c_callback", "on_b2c_result")

\* views.b2b_result, lines 171-181
b2b_result == ViewResult("b2b_result", "parse_b2b_callback", "on_b2b_result")

\* views.account_balance_result, lines 184-194
account_balance_result ==
    ViewResult("account_balance_result", "parse_account_balance_callback",
               "on_account_balance")

\* views.transaction_status_result, lines 197-207
transaction_status_result ==
    ViewResult("transaction_status_result", "parse_transaction_status_callback",
               "on_transaction_status")

\* views.reversal_result, lines 210-220
reversal_result == ViewResult("reversal_result", "parse_reversal_callback", "on_reversal")

\* ---- the handlers that serve callbacks ----
\* MpesaClient.__init__, line 46: MpesaCallbackHandler(self.options.get("callbackOptions"))
ClientHooks(hasOptions) ==
    [NoHooks EXCEPT !["on_success"] = IF hasOptions THEN "dict" ELSE "none"]

\* views.get_mpesa_handler, lines 34-39
DjangoHooks == [NoHooks EXCEPT !["on_success"] = "sync", !["on_failure"] = "sync"]

HookChoices ==
    { NoHooks, ClientHooks(TRUE), DjangoHooks,
      [n \in HandlerNames |-> "sync"], [n \in HandlerNames |-> "async"] }

\* the handler MpesaClient builds, the handlers the Django layer builds, and handlers an
\* application builds itself or adjusts through getCallbackHandler()
DuplicateChoices ==
    { <<"none", {}>>, <<"sync", {}>>, <<"sync", {"ws_1"}>>, <<"async", {"ws_1"}>> }
HandlerConfigs ==
    { MpesaCallbackHandler(hk, v, a, d[1], d[2]) :
        hk \in HookChoices, v \in BOOLEAN, a \in {{}, {"203.0.113.7"}},
        d \in DuplicateChoices }

\* the callbackOptions dict (CallbackHandlerOptions, callback.py): by names who built
\* the handler from it, "application" when the application built the handler itself
NoOptions ==
    [by |-> "application", onSuccess |-> "none", onFailure |-> "none",
     onCallback |-> "none", isDuplicate |-> "none", dupIds |-> {},
     validateIp |-> TRUE, allowedIps |-> {}]
CallbackOptionSets ==
    { [NoOptions EXCEPT !.onSuccess = "sync", !.onFailure = "sync", !.onCallback = c,
                        !.isDuplicate = d[1], !.dupIds = d[2], !.validateIp = v,
                        !.allowedIps = IF v THEN {"203.0.113.7"} ELSE {}] :
        c \in {"none", "sync"}, d \in {<<"none", {}>>, <<"sync", {"ws_1"}>>},
        v \in BOOLEAN }

\* MpesaClient.__init__, lines 46-48: the whole dict goes in as the first positional
\* argument (on_success); every other argument keeps its default
MpesaClientHandler(co) == MpesaCallbackHandler(ClientHooks(TRUE), TRUE, {}, "none", {})

\* factory.create_mpesa, lines 12-21: onSuccess and onFailure (and the result hooks,
\* absent from these options) are read from the dict, validate_ip is True
create_mpesa(co) ==
    MpesaCallbackHandler([NoHooks EXCEPT !["on_success"] = co.onSuccess,
                                         !["on_failure"] = co.onFailure],
                         TRUE, {}, "none", {})

\* a handler and the options it came from
Configured ==
    \/ cbOptions = NoOptions /\ handler \in HandlerConfigs
    \/ \E co \in CallbackOptionSets :
          \/ cbOptions = [co EXCEPT !.by = "MpesaClient"] /\ handler = MpesaClientHandler(co)
          \/ cbOptions = [co EXCEPT !.by = "create_mpesa"] /\ handler = create_mpesa(co)

(***************************************************************************)
(* Initial states and specifications                                       *)
(***************************************************************************)
RetryIdle ==
    /\ opts = DEFAULT_RETRY_OPTIONS
    /\ pc = "idle"
    /\ attempt = 0
    /\ failLog = <<>>
    /\ calls = 0
    /\ onRetryLog = <<>>
    /\ sleepLog = <<>>
    /\ result = NoResult

RequestIdle ==
    /\ limiterKind = "none"
    /\ rlKey = NoKey
    /\ checkCalls = 0
    /\ tokenFetches = 0
    /\ posts = 0
    /\ requests = 0
    /\ lastPost = NoPost

LimiterFresh ==
    /\ now = 0
    /\ cleanupTask = StartedCleanup
    /\ store = [k \in Keys |-> NoEntry]
    /\ redis = [rk \in RedisKeys |-> NoRedis]
    /\ checks = 0
    /\ win = [k \in Keys |-> NoWin]
    /\ lastCheck = NoCheck
    /\ lastUsage = NoUsage

ErrorIdle ==
    /\ apiCall = [status_code |-> 0, response_body |-> EmptyBody]
    /\ apiError = NoError
    /\ delayCall = NoDelayCall
    /\ extraction = NoExtraction

SessionIdle ==
    /\ session = NoSession
    /\ tasks = [t \in Tasks |-> IdleTask]
    /\ procs = [p \in Procs |-> IdleProc]
    /\ lives = NoLives
    /\ coros = [c \in Coros |-> IdleCoro]
    /\ admitLog = <<>>
    /\ unswept = NeverSwept

CallbackIdle ==
    /\ handler = MpesaCallbackHandler(NoHooks, TRUE, {}, "none", {})
    /\ cbOptions = NoOptions
    /\ cbLog = <<>>
    /\ cbResult = NoAck
    /\ cbReq = NoRequest
    /\ parsed = NoParsed
    /\ deliveries = 0

\* the retry engine running an arbitrary operation
InitRetry ==
    /\ RetryIdle
    /\ RequestIdle
    /\ LimiterFresh
    /\ limOpts = [maxRequests |-> 100, windowMs |-> 60000]
    /\ CallbackIdle
    /\ ErrorIdle
    /\ SessionIdle

NextRetry == RetryStart \/ AttemptReturns \/ AttemptRaises \/ Wake \/ Cancel

SpecRetry == InitRetry /\ [][NextRetry]_vars

\* a RateLimiter and a RedisRateLimiter configured alike, fed one call sequence
InitLimiter ==
    /\ RetryIdle
    /\ RequestIdle
    /\ LimiterFresh
    /\ limOpts \in LimiterOptionSets
    /\ CallbackIdle
    /\ ErrorIdle
    /\ SessionIdle

NextLimiter == Tick \/ Sweep \/ \E k \in Keys : CheckLimit(k)

SpecLimiter == InitLimiter /\ [][NextLimiter]_vars

\* a RateLimiter whose usage is read between checkLimit calls
UsageOptionSets == [maxRequests : {0, MaxRequestsBound}, windowMs : {1000}]

InitUsage ==
    /\ RetryIdle
    /\ RequestIdle
    /\ LimiterFresh
    /\ limOpts \in UsageOptionSets
    /\ CallbackIdle
    /\ ErrorIdle
    /\ SessionIdle

NextUsage == Tick \/ Sweep \/ \E k \in Keys : CheckLimit(k) \/ GetUsage(k)

SpecUsage == InitUsage /\ [][NextUsage]_vars

\* an MpesaClient constructed with retryOptions and rateLimitOptions, serving makeRequest
RequestRetryOptions ==
    [maxRetries : 0 .. MaxRetriesBound, initialDelayMs : {DefaultInitialDelayMs},
     maxDelayMs : {3 * DefaultInitialDelayMs}, backoffMultiplier : {DefaultBackoffMultiplier},
     retryableStatusCodes : {DefaultRetryableStatusCodes}, onRetry : {"noop"}]
RequestLimiterOptions == [maxRequests : {0, 1}, windowMs : {0, 1000}]

InitRequest ==
    /\ opts \in RequestRetryOptions
    /\ pc = "idle"
    /\ attempt = 0
    /\ failLog = <<>>
    /\ calls = 0
    /\ onRetryLog = <<>>
    /\ sleepLog = <<>>
    /\ result = NoResult
    /\ limiterKind \in {"none", "local", "redis"}
    /\ rlKey = NoKey
    /\ checkCalls = 0
    /\ tokenFetches = 0
    /\ posts = 0
    /\ requests = 0
    /\ lastPost = NoPost
    /\ LimiterFresh
    /\ limOpts \in RequestLimiterOptions
    /\ CallbackIdle
    /\ ErrorIdle
    /\ SessionIdle

NextRequest == RequestStart \/ RequestAttempt \/ Wake

SpecRequest == InitRequest /\ [][NextRequest]_vars

\* parse_mpesa_api_error applied to a status and a body
InitErrors ==
    /\ RetryIdle
    /\ RequestIdle
    /\ LimiterFresh
    /\ limOpts = [maxRequests |-> 100, windowMs |-> 60000]
    /\ CallbackIdle
    /\ apiCall \in [status_code : StatusCodes, response_body : ResponseBodies]
    /\ apiError = NoError
    /\ delayCall = NoDelayCall
    /\ extraction = NoExtraction
    /\ SessionIdle

NextErrors == ParseApiError

SpecErrors == InitErrors /\ [][NextErrors]_vars

\* calculateDelay applied to the attempts of one run
InitDelay ==
    /\ RetryIdle
    /\ RequestIdle
    /\ LimiterFresh
    /\ limOpts = [maxRequests |-> 100, windowMs |-> 60000]
    /\ CallbackIdle
    /\ ErrorIdle
    /\ SessionIdle

NextDelay == CalculateDelay

SpecDelay == InitDelay /\ [][NextDelay]_vars

\* processes sharing one Redis store through RedisRateLimiter instances configured alike
ProcOptionSets == [maxRequests : {0, 1, MaxRequestsBound}, windowMs : {0, 1000}]

InitProcs ==
    /\ RetryIdle
    /\ RequestIdle
    /\ LimiterFresh
    /\ limOpts \in ProcOptionSets
    /\ CallbackIdle
    /\ ErrorIdle
    /\ SessionIdle

NextProcs == Tick \/ \E p \in Procs : ProcIncr(p) \/ ProcExpire(p) \/ ProcGet(p)

SpecProcs == InitProcs /\ [][NextProcs]_vars

\* an MpesaClient whose limiter admits one call per window, serving makeRequest calls
\* that may retry
InitAttempts ==
    /\ opts = [maxRetries |-> MaxRetriesBound, initialDelayMs |-> DefaultInitialDelayMs,
               maxDelayMs |-> 3 * DefaultInitialDelayMs,
               backoffMultiplier |-> DefaultBackoffMultiplier,
               retryableStatusCodes |-> DefaultRetryableStatusCodes, onRetry |-> "noop"]
    /\ pc = "idle"
    /\ attempt = 0
    /\ failLog = <<>>
    /\ calls = 0
    /\ onRetryLog = <<>>
    /\ sleepLog = <<>>
    /\ result = NoResult
    /\ limiterKind \in {"none", "local", "redis"}
    /\ rlKey = NoKey
    /\ checkCalls = 0
    /\ tokenFetches = 0
    /\ posts = 0
    /\ requests = 0
    /\ lastPost = NoPost
    /\ LimiterFresh
    /\ limOpts = [maxRequests |-> 1, windowMs |-> 1000]
    /\ CallbackIdle
    /\ ErrorIdle
    /\ SessionIdle

NextAttempts == RequestStart \/ RequestAttempt \/ Wake

SpecAttempts == InitAttempts /\ [][NextAttempts]_vars

\* coroutines of one event loop calling checkLimit on one key of a RateLimiter, with its
\* background sweep
CoroOptionSets == [maxRequests : {0, MaxRequestsBound}, windowMs : {1000}]

InitCoros ==
    /\ RetryIdle
    /\ RequestIdle
    /\ LimiterFresh
    /\ limOpts \in CoroOptionSets
    /\ CallbackIdle
    /\ ErrorIdle
    /\ SessionIdle

NextCoros == Tick \/ Sweep \/ \E c \in Coros : CoCall(c) \/ CoCheck(c)

SpecCoros == InitCoros /\ [][NextCoros]_vars

\* a result parser applied to a payload with a list of metadata items
InitExtract ==
    /\ RetryIdle
    /\ RequestIdle
    /\ LimiterFresh
    /\ limOpts = [maxRequests |-> 100, windowMs |-> 60000]
    /\ CallbackIdle
    /\ apiCall = [status_code |-> 0, response_body |-> EmptyBody]
    /\ apiError = NoError
    /\ delayCall = NoDelayCall
    /\ \E parser \in DOMAIN MetadataFields, rc \in {0, 1} :
          \E items \in ListsOf(ItemsOf(parser), MaxItems) :
             extraction = [parser |-> parser, result_code |-> rc, items |-> items,
                           done |-> FALSE, fields |-> <<>>]
    /\ SessionIdle

NextExtract == ParseMetadata

SpecExtract == InitExtract /\ [][NextExtract]_vars

\* processes sharing one Redis store, with reset calls; the companion key is one no
\* RedisRateLimiter call has written: absent, or left in the store by another program
SharedOptionSets == [maxRequests : {1}, windowMs : {1500}]
ForeignTtl == {NoRedis, [value |-> 0, expireAt |-> NoneVal]}

InitShared ==
    /\ RetryIdle
    /\ RequestIdle
    /\ now = 0
    /\ cleanupTask = StartedCleanup
    /\ store = [k \in Keys |-> NoEntry]
    /\ \E f \in ForeignTtl :
          redis = [[rk \in RedisKeys |-> NoRedis] EXCEPT ![<<SharedKey, "ttl">>] = f]
    /\ checks = 0
    /\ win = [k \in Keys |-> NoWin]
    /\ lastCheck = NoCheck
    /\ lastUsage = NoUsage
    /\ limOpts \in SharedOptionSets
    /\ CallbackIdle
    /\ ErrorIdle
    /\ SessionIdle

NextShared ==
    \/ TickSecond
    \/ ProcReset
    \/ \E p \in Procs : ProcIncrAt(p) \/ ProcExpire(p) \/ ProcGet(p)

SpecShared == InitShared /\ [][NextShared]_vars

\* a RateLimiter serving the calls on one key, with its background sweep
WindowOptionSets ==
    [maxRequests : {1, MaxRequestsBound}, windowMs : {0, 1000, 60000}]

InitWindow ==
    /\ RetryIdle
    /\ RequestIdle
    /\ LimiterFresh
    /\ limOpts \in WindowOptionSets
    /\ CallbackIdle
    /\ ErrorIdle
    /\ SessionIdle

NextWindow == Tick \/ TickFine \/ Sweep \/ LocalCheck

SpecWindow == InitWindow /\ [][NextWindow]_vars

\* a RateLimiter under every sequence of its operations and of its background sweep, the
\* checkLimit and getUsage calls being made on one key
StoreOptionSets == [maxRequests : {0, MaxRequestsBound}, windowMs : {0, 1000}]

InitStore ==
    /\ RetryIdle
    /\ RequestIdle
    /\ LimiterFresh
    /\ limOpts \in StoreOptionSets
    /\ CallbackIdle
    /\ ErrorIdle
    /\ SessionIdle

NextStore ==
    \/ Tick
    \/ Sweep
    \/ ResetAll
    \/ CheckLimit(SharedKey)
    \/ GetUsage(SharedKey)
    \/ \E k \in Keys : Reset(k)

SpecStore == InitStore /\ [][NextStore]_vars

\* a client with a local RateLimiter that is used, swept and destroyed
InitCleanup ==
    /\ RetryIdle
    /\ limiterKind = "local"
    /\ rlKey = NoKey
    /\ checkCalls = 0
    /\ tokenFetches = 0
    /\ posts = 0
    /\ requests = 0
    /\ lastPost = NoPost
    /\ LimiterFresh
    /\ limOpts = [maxRequests |-> MaxRequestsBound, windowMs |-> 1000]
    /\ CallbackIdle
    /\ ErrorIdle
    /\ SessionIdle

NextCleanup ==
    \/ Tick
    \/ Sweep
    \/ CheckLimit("k1")
    \/ LimiterDestroy
    \/ Destroy

SpecCleanup == InitCleanup /\ [][NextCleanup]_vars

\* one MpesaClient serving concurrent makeRequest calls, with destroy() at any moment
InitSession ==
    /\ RetryIdle
    /\ limiterKind \in {"none", "local"}
    /\ rlKey = NoKey
    /\ checkCalls = 0
    /\ tokenFetches = 0
    /\ posts = 0
    /\ requests = 0
    /\ lastPost = NoPost
    /\ LimiterFresh
    /\ limOpts = [maxRequests |-> 100, windowMs |-> 60000]
    /\ CallbackIdle
    /\ ErrorIdle
    /\ SessionIdle

NextSession ==
    \/ \E t \in Tasks : TaskStart(t) \/ TaskAcquire(t) \/ TaskPostEnds(t)
    \/ Destroy

SpecSession == InitSession /\ [][NextSession]_vars

\* a callback handler serving the gateway's deliveries
InitCallback ==
    /\ RetryIdle
    /\ RequestIdle
    /\ LimiterFresh
    /\ limOpts = [maxRequests |-> 100, windowMs |-> 60000]
    /\ Configured
    /\ cbLog = <<>>
    /\ cbResult = NoAck
    /\ cbReq = NoRequest
    /\ parsed = NoParsed
    /\ deliveries = 0
    /\ ErrorIdle
    /\ SessionIdle

NextCallback ==
    \/ handleStkCallback
    \/ handleC2BValidation
    \/ handleC2BConfirmation
    \/ handleB2CCallback
    \/ handleAccountBalanceCallback
    \/ handleTransactionStatusCallback
    \/ handleReversalCallback
    \/ stk_callback
    \/ c2b_validation
    \/ c2b_confirmation
    \/ b2c_result
    \/ b2b_result
    \/ account_balance_result
    \/ transaction_status_result
    \/ reversal_result

SpecCallback == InitCallback /\ [][NextCallback]_vars

(***************************************************************************)
(* Properties of the retry engine and the request executor                 *)
(***************************************************************************)
\* the classification section 4.1 describes and isRetryableError is written to compute:
\* a network failure by its flag, a rate-limit rejection always, another error carrying a
\* status code iff the code is in retryableStatusCodes, a transport failure by its
\* name or code
ClassifiedRetryable(e, codes) ==
    IF e.kind = "MpesaNetworkError" THEN e.is_retryable
    ELSE IF e.kind = "MpesaRateLimitError" THEN TRUE
    ELSE IF IsMpesaError(e) /\ Truthy(e.status_code) THEN e.status_code \in codes
    ELSE e.name = "FetchError" \/ e.code \in {"ECONNREFUSED", "ETIMEDOUT"}

LastFailure == failLog[Len(failLog)]

\* C1: retryWithBackoff invokes the operation at most maxRetries + 1 times; when every
\* attempt fails with a retryable error it invokes it exactly maxRetries + 1 times and then
\* fails; with maxRetries = 0 it makes exactly one attempt, without onRetry call or sleep.
C1_AttemptCount ==
    /\ calls <= opts.maxRetries + 1
    /\ (pc = "done" /\ Len(failLog) = calls
          /\ \A i \in 1 .. Len(failLog) :
                ClassifiedRetryable(failLog[i], opts.retryableStatusCodes))
         => (calls = opts.maxRetries + 1 /\ result.kind = "raised")
    /\ (pc = "done" /\ opts.maxRetries = 0)
         => (calls = 1 /\ onRetryLog = <<>> /\ sleepLog = <<>>)

\* C2: when an attempt fails with a non-retryable error, or is attempt number maxRetries,
\* retryWithBackoff raises that same error (kind, code, status_code, details) to its caller
\* and makes no further attempt, onRetry call or sleep.
C2_OriginalErrorPropagates ==
    (failLog # <<>>
       /\ (~ClassifiedRetryable(LastFailure, opts.retryableStatusCodes)
             \/ Len(failLog) = opts.maxRetries + 1))
      => /\ pc = "done"
         /\ result = ResultRaised(LastFailure)
         /\ calls = Len(failLog)
         /\ Len(onRetryLog) = Len(failLog) - 1
         /\ Len(sleepLog) = Len(failLog) - 1

\* C3: for every attempt < maxRetries a retryable error causes one additional attempt after
\* a positive, capped delay (the cap is maxDelayMs plus the 20% jitter); for attempt =
\* maxRetries the error propagates with no further delay.
C3_RetryAfterDelay ==
    \A i \in 1 .. Len(failLog) :
        ClassifiedRetryable(failLog[i], opts.retryableStatusCodes)
          => IF i - 1 < opts.maxRetries
             THEN /\ Len(sleepLog) >= i
                  /\ sleepLog[i] > 0
                  /\ 10 * sleepLog[i] <= 12 * opts.maxDelayMs
                  /\ ~(pc = "done" /\ calls = i)
             ELSE /\ pc = "done"
                  /\ result = ResultRaised(failLog[i])
                  /\ Len(sleepLog) = i - 1

\* C4: in makeRequest a checkLimit rejection comes before any network attempt and is never
\* retried: checkLimit was called once for the call, no token was fetched, nothing was
\* posted, no onRetry call and no sleep were made, and the caller gets the limiter's
\* MpesaRateLimitError.
C4_RejectionNotRetried ==
    (failLog # <<>> /\ LastFailure.kind = "MpesaRateLimitError")
      => /\ pc = "done"
         /\ result = ResultRaised(LastFailure)
         /\ checkCalls = 1
         /\ tokenFetches = 0
         /\ posts = 0
         /\ onRetryLog = <<>>
         /\ sleepLog = <<>>

(***************************************************************************)
(* Properties of the rate limiters                                         *)
(***************************************************************************)
\* what C5 says of the last checkLimit call, the n-th call of its window, made at
\* lastCheck.time: admitted up to the N-th, rejected from the (N+1)-th on while before
\* resetAt, and a call at or after the previous resetAt admitted into a window restarted
\* with count = 1 and resetAt = now + windowMs
FixedWindowDecision ==
    /\ lastCheck.n <= limOpts.maxRequests => lastCheck.local
    /\ (lastCheck.n > limOpts.maxRequests /\ lastCheck.time < lastCheck.resetAt)
          => ~lastCheck.local
    /\ lastCheck.restart
          => /\ lastCheck.local
             /\ lastCheck.entry = [count |-> 1, resetAt |-> lastCheck.time + limOpts.windowMs]

\* C5 as stated: for maxRequests = N, counting from the first call of a window, the N-th
\* call made before resetAt is admitted, the (N+1)-th and every later call made before
\* resetAt is rejected, and the first call at or after resetAt is admitted and restarts the
\* window with count = 1 and resetAt = now + windowMs.
C5_AsStated == lastCheck.key # NoKey => FixedWindowDecision

\* C5 amended: the same for maxRequests = N >= 1 (with maxRequests = 0 the first call of
\* every window is admitted all the same).
C5_FixedWindow == (lastCheck.key # NoKey /\ limOpts.maxRequests >= 1) => FixedWindowDecision

\* the (N+1)-th call of a window has been rejected
C5_Witness ==
    /\ limOpts.maxRequests >= 1
    /\ lastCheck.n = limOpts.maxRequests + 1
    /\ lastCheck.time < lastCheck.resetAt
    /\ ~lastCheck.local

\* C6: for every sequence of checkLimit calls and clock advances, with the same maxRequests
\* and windowMs, RateLimiter and RedisRateLimiter make the same admit/reject decision on
\* every call.
C6_SameDecision == lastCheck.key # NoKey => lastCheck.local = lastCheck.redis

(***************************************************************************)
(* Properties of the callback engine                                       *)
(***************************************************************************)
Invoked == {cbLog[i] : i \in 1 .. Len(cbLog)}
StkEntries == {"handleStkCallback", "stk_callback"}
\* IP validation is enabled and the delivery's source address is not in the allow-list
UntrustedSource ==
    /\ handler.validate_ip
    /\ IpTruthy(cbReq.ip)
    /\ cbReq.ip \notin handler.allowed_ips

\* C7: every inbound callback entry point ends by returning an acknowledgment with
\* ResultCode 0 or 1; when parsing, the duplicate predicate or a handler raised, no
\* exception reaches the transport and the acknowledgment has ResultCode = 1.
C7_AlwaysAcknowledged ==
    deliveries > 0
      => /\ cbResult.kind = "ack"
         /\ cbResult.ResultCode \in {0, 1}
         /\ cbResult.internal # "none" => cbResult.ResultCode = 1

\* C8: for an STK callback whose checkout_request_id the is_duplicate predicate (sync or
\* awaitable) reports as already seen, handle_callback invokes none of on_callback,
\* on_success, on_failure, and MpesaClient.handleStkCallback acknowledges with
\* ResultCode = 0, on the first delivery and on every re-delivery.
C8_DuplicateNotDispatched ==
    (cbReq.entry \in StkEntries /\ "is_duplicate is True" \in Invoked)
      => /\ Invoked \cap HandlerNames = {}
         /\ cbReq.entry = "handleStkCallback"
              => (cbResult.kind = "ack" /\ cbResult.ResultCode = 0)

\* a duplicate is re-delivered to a client whose handler has handlers registered and an
\* awaitable predicate
C8_Witness ==
    /\ deliveries = MaxDeliveries
    /\ cbReq.entry = "handleStkCallback"
    /\ "is_duplicate is True" \in Invoked
    /\ handler.is_duplicate = "async"
    /\ handler.hooks["on_callback"] # "none"
    /\ handler.hooks["on_success"] # "none"
    /\ cbResult.ResultCode = 0

\* C9: handle_callback with IP validation enabled and a source address outside the
\* allow-list rejects before any parsing (no parse_callback, no duplicate predicate, no
\* handler), and the rejection is an authorization error, the AuthError kind.
C9_UntrustedRejectedAsAuthError ==
    (cbReq.entry \in StkEntries /\ cbReq.payload.shape # "notjson" /\ UntrustedSource)
      => /\ cbLog = <<>>
         /\ cbResult.internal = "MpesaAuthError"

\* C10: the trust check is step 1 of every inbound callback: for the C2B, B2C, B2B,
\* balance, transaction status and reversal entry points too, an untrusted source with IP
\* validation enabled means no parsing and no handler dispatch.
C10_TrustCheckEverywhere ==
    (deliveries > 0 /\ cbReq.entry \notin StkEntries /\ UntrustedSource)
      => Invoked \cap (Parsers \cup HandlerNames) = {}

\* how many times the delivery invoked `name`, and where in the order of invocations
Count(name) == Cardinality({i \in 1 .. Len(cbLog) : cbLog[i] = name})
Pos(name) == IF name \in Invoked THEN CHOOSE i \in 1 .. Len(cbLog) : cbLog[i] = name ELSE 0
\* the handler attribute holds a function or a coroutine function
Callable(name) == handler.hooks[name] \in {"sync", "async"}
\* the last callee invoked raised
LastRaised(name) ==
    cbResult.internal # "none" /\ cbLog # <<>> /\ cbLog[Len(cbLog)] = name

\* an STK delivery that passed the trust check, was parsed and is not a duplicate
StkDispatched ==
    /\ cbReq.entry \in StkEntries
    /\ cbReq.payload.shape = "ok"
    /\ "parse_callback" \in Invoked
    /\ "is_duplicate is True" \notin Invoked
    /\ "is_duplicate raised" \notin Invoked

\* C11: for a non-duplicate STK callback that passed the trust check, handle_callback
\* invokes on_callback (if registered) first and exactly once, then exactly one of
\* on_success (result_code = 0) or on_failure (result_code # 0) if registered, never both;
\* if on_callback raises, neither is invoked.
C11_DispatchOrder ==
    StkDispatched =>
      LET which == IF cbReq.payload.result_code = 0 THEN "on_success" ELSE "on_failure"
          other == IF cbReq.payload.result_code = 0 THEN "on_failure" ELSE "on_success"
      IN  /\ Count("on_callback") = IF Callable("on_callback") THEN 1 ELSE 0
          /\ other \notin Invoked
          /\ Count(which) =
               IF Callable(which) /\ ~LastRaised("on_callback") THEN 1 ELSE 0
          /\ (which \in Invoked /\ Callable("on_callback"))
               => Pos("on_callback") < Pos(which)
          /\ LastRaised("on_callback") => Invoked \cap {"on_success", "on_failure"} = {}

\* a failed payment (1032) went to on_callback and then to on_failure, both registered
C11_Witness ==
    /\ StkDispatched
    /\ cbReq.payload.result_code = 1032
    /\ handler.hooks["on_success"] = "async"
    /\ cbLog = <<"parse_callback", "is_duplicate is False", "on_callback", "on_failure">>
    /\ cbResult.internal = "none"

\* the single result handler of each non-STK entry point
ResultHook ==
    [e \in {"handleB2CCallback", "b2c_result"} |-> "on_b2c_result"]
    @@ [e \in {"b2b_result"} |-> "on_b2b_result"]
    @@ [e \in {"handleAccountBalanceCallback", "account_balance_result"}
          |-> "on_account_balance"]
    @@ [e \in {"handleTransactionStatusCallback", "transaction_status_result"}
          |-> "on_transaction_status"]
    @@ [e \in {"handleReversalCallback", "reversal_result"} |-> "on_reversal"]
    @@ [e \in {"handleC2BConfirmation", "c2b_confirmation"} |-> "on_c2b_confirmation"]

\* C12: for every non-STK operation (B2C, B2B, account balance, transaction status,
\* reversal, C2B confirmation) the registered result handler, synchronous or asynchronous,
\* is invoked exactly once per callback, for a successful and for a failed result alike,
\* and the callback is then acknowledged without an internal error.
C12_SingleResultHandler ==
    (/\ cbReq.entry \in DOMAIN ResultHook
     /\ cbReq.payload.shape = "ok"
     /\ Callable(ResultHook[cbReq.entry])
     /\ cbResult.internal # "HandlerError")
      => /\ Count(ResultHook[cbReq.entry]) = 1
         /\ cbResult.kind = "ack"
         /\ cbResult.internal = "none"

\* C13: for each of parse_callback, parse_b2c_callback, parse_b2b_callback,
\* parse_account_balance_callback, parse_transaction_status_callback and
\* parse_reversal_callback and every result code N: is_success iff N = 0; error_message is
\* unset iff N = 0; for N # 0 in ERROR_MESSAGES it is the table entry (1032: 'Request
\* cancelled by user'); for N # 0 absent from the table it is 'Transaction failed with
\* code: N'.
C13_ResultCodeMapping ==
    parsed.parser \in Parsers \ {"parse_c2b_callback"} =>
      LET N == parsed.result_code IN
      /\ N = cbReq.payload.result_code
      /\ parsed.is_success <=> N = 0
      /\ parsed.error_message = NoMessage <=> N = 0
      /\ (N # 0 /\ N \in DOMAIN ERROR_MESSAGES)
           => parsed.error_message = Message(ERROR_MESSAGES[N], NoneVal)
      /\ N = 1032 => parsed.error_message.text = "Request cancelled by user"
      /\ (N # 0 /\ N \notin DOMAIN ERROR_MESSAGES)
           => parsed.error_message = Message("Transaction failed with code: ", N)

\* scenario C: an STK callback with ResultCode 1032 has been parsed
C13_Witness ==
    /\ parsed.parser = "parse_callback"
    /\ parsed.result_code = 1032
    /\ ~parsed.is_success
    /\ parsed.error_message.text = "Request cancelled by user"

(***************************************************************************)
(* Properties of the error translation and of the request executor         *)
(***************************************************************************)
\* C14: parse_mpesa_api_error(status, body) returns MpesaAuthError for 401 and 403,
\* MpesaValidationError for 400, MpesaRateLimitError for 429 with retry_after the body's
\* retryAfter (unset when the body has none), MpesaNetworkError with is_retryable true for
\* every status >= 500, and for every other status a MpesaApiError carrying the status as
\* status_code and the body as response_body.
C14_StatusMapping ==
    apiError # NoError =>
      LET status == apiCall.status_code
          body == apiCall.response_body
      IN  /\ status \in {401, 403} => apiError.kind = "MpesaAuthError"
          /\ status = 400 => apiError.kind = "MpesaValidationError"
          /\ status = 429 => /\ apiError.kind = "MpesaRateLimitError"
                             /\ apiError.retry_after = body.retryAfter
          /\ status >= 500 => /\ apiError.kind = "MpesaNetworkError"
                              /\ apiError.is_retryable
          /\ (status \notin {400, 401, 403, 429} /\ status < 500)
               => /\ apiError.kind = "MpesaApiError"
                  /\ apiError.status_code = status
                  /\ apiError.response_body = body

\* a 429 whose body carries retryAfter = 30 has been translated
C14_Witness ==
    /\ apiCall.status_code = 429
    /\ apiCall.response_body.retryAfter = 30
    /\ apiError.kind = "MpesaRateLimitError"
    /\ apiError.retry_after = 30

\* the last attempt of the running makeRequest got an HTTP response with this status
Responded(statuses) == lastPost.kind = "response" /\ lastPost.status \in statuses
\* the error kind the status mapping gives a status
MappedKind(status) ==
    IF status \in {401, 403} THEN "MpesaAuthError"
    ELSE IF status = 400 THEN "MpesaValidationError"
    ELSE IF status = 429 THEN "MpesaRateLimitError"
    ELSE IF status >= 500 THEN "MpesaNetworkError"
    ELSE "MpesaApiError"

\* C15: makeRequest never returns a response body as a successful result when the HTTP
\* status of the attempt is outside 200..299: every non-2xx response, with or without a
\* body that parses as JSON, makes the attempt fail with the typed error of the status
\* mapping.
C15_NonSuccessStatusFails ==
    (lastPost.kind = "response" /\ ~(200 <= lastPost.status /\ lastPost.status < 300))
      => /\ result.kind # "returned"
         /\ failLog # <<>>
         /\ LastFailure.kind = MappedKind(lastPost.status)

\* C16: a network attempt that exceeds its deadline fails with MpesaTimeoutError; under the
\* default retry policy it is retried after a backoff delay while attempts remain, and
\* when none remain the caller receives that MpesaTimeoutError.
C16_TimeoutRetried ==
    lastPost.kind = "timeout"
      => /\ failLog # <<>>
         /\ LastFailure.kind = "MpesaTimeoutError"
         /\ pc = "done" => /\ result = ResultRaised(LastFailure)
                           /\ Len(failLog) = opts.maxRetries + 1
         /\ pc # "done" => /\ Len(sleepLog) = Len(failLog)
                           /\ sleepLog[Len(sleepLog)] > 0

\* C17: a response with status 400, 401 or 403 is never retried: the attempt is the last
\* one, no onRetry call and no sleep follow it, and the caller receives a
\* MpesaValidationError (400) or a MpesaAuthError (401, 403).
C17_ClientErrorsTerminal ==
    Responded({400, 401, 403})
      => /\ pc = "done"
         /\ result.kind = "raised"
         /\ result.error.kind = MappedKind(lastPost.status)
         /\ Len(onRetryLog) = Len(failLog) - 1
         /\ Len(sleepLog) = Len(failLog) - 1
         /\ posts = 1 \/ Len(failLog) > 1

\* C18: for one MpesaClient and any interleaving of makeRequest calls and retries, at most
\* one session is open at any time and every attempt uses the same session until
\* destroy(); after destroy() the session is closed and no session the client opened
\* before it remains open.
C18_OneSession ==
    /\ Cardinality(session.open) <= 1
    /\ Cardinality(session.used) <= 1
    /\ session.used \subseteq session.open
    /\ \A i \in session.open : i > session.before /\ i = session.cur

\* two calls have attempted after a destroy(), one of them on a retry, and share the
\* second session the client opened
C18_Witness ==
    /\ session.destroys >= 1
    /\ session.opened = 2
    /\ session.used = {2}
    /\ \A t \in Tasks : tasks[t].pc = "post"
    /\ \E t \in Tasks : tasks[t].attempt >= 1

(***************************************************************************)
(* Properties of getUsage                                                  *)
(***************************************************************************)
\* the window getUsage found for its key: absent, expired or active
UsageWindow ==
    LET entry == lastUsage.found[lastUsage.key] IN
    IF entry = NoEntry THEN "absent"
    ELSE IF now >= entry.resetAt THEN "expired"
    ELSE "active"

\* C19: getUsage(key) never changes the limiter's store, whether the key has no window, an
\* active window or an expired one; for an absent or expired window it reports count 0
\* and remaining = maxRequests, and for an active window count + remaining = maxRequests
\* whenever count <= maxRequests.
C19_UsageIsPureRead ==
    lastUsage.key # NoKey
      => /\ store = lastUsage.found
         /\ UsageWindow \in {"absent", "expired"}
              => (lastUsage.count = 0 /\ lastUsage.remaining = limOpts.maxRequests)
         /\ (UsageWindow = "active" /\ lastUsage.count <= limOpts.maxRequests)
              => lastUsage.count + lastUsage.remaining = limOpts.maxRequests

\* getUsage has read an expired window holding a count, and left it in the store
C19_Witness ==
    /\ lastUsage.key # NoKey
    /\ UsageWindow = "expired"
    /\ store[lastUsage.key].count >= 1
    /\ lastUsage.count = 0
    /\ lastUsage.remaining = MaxRequestsBound

(***************************************************************************)
(* Properties of the configuration surface                                 *)
(***************************************************************************)
\* the engine serves callbacks with the handlers, predicate and trust settings of the
\* callbackOptions it was configured from
OptionsInEffect ==
    /\ handler.hooks["on_success"] = cbOptions.onSuccess
    /\ handler.hooks["on_failure"] = cbOptions.onFailure
    /\ handler.hooks["on_callback"] = cbOptions.onCallback
    /\ handler.is_duplicate = cbOptions.isDuplicate
    /\ handler.validate_ip = cbOptions.validateIp
    /\ handler.allowed_ips = IF cbOptions.allowedIps = {} THEN SAFARICOM_IPS
                              ELSE cbOptions.allowedIps

\* the entry point that serves STK callbacks with the handler built from the options
ConfiguredEntry ==
    IF cbOptions.by = "MpesaClient" THEN "handleStkCallback" ELSE "stk_callback"

\* the delivery's source is one the configured trust settings accept
ConfiguredTrust ==
    \/ ~cbOptions.validateIp
    \/ cbReq.ip \in (IF cbOptions.allowedIps = {} THEN SAFARICOM_IPS
                      ELSE cbOptions.allowedIps)

\* C20: when an MpesaClient (or create_mpesa) is configured with callbackOptions
\* containing onSuccess, onFailure, onCallback, isDuplicate, validateIp or allowedIps, the
\* handler that serves its callbacks has exactly those handlers, predicate and trust
\* settings, and a successful STK callback it accepts (allowed source, not a duplicate,
\* no handler raising) invokes the configured onSuccess exactly once and is acknowledged
\* with ResultCode 0.
C20_OptionsTakeEffect ==
    (cbOptions.by \in {"MpesaClient", "create_mpesa"} /\ cbReq.entry = ConfiguredEntry)
      => /\ OptionsInEffect
         /\ ( /\ cbReq.payload.shape = "ok"
              /\ cbReq.payload.result_code = 0
              /\ ConfiguredTrust
              /\ cbReq.payload.id \notin cbOptions.dupIds
              /\ cbResult.internal # "HandlerError" )
              => (Count("on_success") = 1 /\ cbResult.ResultCode = 0)

(***************************************************************************)
(* Properties of the trust boundary's configuration                        *)
(***************************************************************************)
\* `allowed_ips or self.SAFARICOM_IPS`: the handler holds the default list exactly when
\* it was constructed with no allow-list or an empty one
ConstructedWithoutAllowList == handler.allowed_ips = SAFARICOM_IPS

\* C21: a handler constructed with validate_ip = false, or with an empty allowed_ips
\* list, accepts every source address in validate_callback_ip; and no callback operation
\* modifies the allow-list after construction.
C21_EmptyOrDisabledTrustsAll ==
    /\ []( ( /\ cbReq.entry # "none"
             /\ IpTruthy(cbReq.ip)
             /\ (~handler.validate_ip \/ ConstructedWithoutAllowList) )
             => validate_callback_ip(handler, cbReq.ip) )
    /\ [][handler'.allowed_ips = handler.allowed_ips]_vars

(***************************************************************************)
(* Properties of the retry engine's classification and delays              *)
(***************************************************************************)
\* C22: isRetryableError(error, retryableStatusCodes) returns a boolean for every error
\* an attempt failed with, without raising: true iff the status code is in
\* retryableStatusCodes for an error carrying one, and true only for transport/network
\* failures for an error carrying none.
C22_ClassificationTotal ==
    \A i \in 1 .. Len(failLog) :
        LET cls == isRetryableError(failLog[i], opts.retryableStatusCodes) IN
        /\ ~cls.raised
        /\ cls.value = ClassifiedRetryable(failLog[i], opts.retryableStatusCodes)

\* C23: when a failed attempt's error is a MpesaRateLimitError carrying a retry-after
\* hint of h seconds and attempts remain, the engine sleeps exactly h * 1000 ms before the
\* next attempt, whatever the attempt number, the delay options and the random draw.
C23_HintIsTheDelay ==
    \A i \in 1 .. Len(failLog) :
        ( /\ failLog[i].kind = "MpesaRateLimitError"
          /\ Truthy(failLog[i].retry_after)
          /\ i - 1 < opts.maxRetries )
          => /\ Len(sleepLog) >= i
             /\ sleepLog[i] = failLog[i].retry_after * 1000
             /\ Len(onRetryLog) >= i

\* the task running retryWithBackoff was cancelled
Cancelled == result.error.kind = "CancelledError"

\* C24: when the caller cancels retryWithBackoff while it is suspended in a backoff sleep
\* or inside an attempt, the retry sequence ends: the cancellation is not handed to the
\* classification as an error to retry, and from then on no attempt is started, no
\* onRetry call is made and no sleep is begun.
C24_CancellationEndsRetries ==
    /\ []( Cancelled
             => /\ pc = "done"
                /\ \A i \in 1 .. Len(failLog) : failLog[i].kind # "CancelledError"
                /\ Len(onRetryLog) = Len(failLog)
                /\ Len(sleepLog) = Len(failLog)
                /\ calls \in {Len(failLog), Len(failLog) + 1} )
    /\ [][Cancelled => UNCHANGED <<calls, failLog, onRetryLog, sleepLog, result>>]_vars

\* a run cancelled inside its second attempt, after one onRetry call and one sleep
C24_Witness ==
    /\ Cancelled
    /\ Len(sleepLog) = 1
    /\ calls = 2

(***************************************************************************)
(* Properties of the local limiter's shutdown                              *)
(***************************************************************************)
EmptyStore == [k \in Keys |-> NoEntry]

\* C25: after RateLimiter.destroy(), directly or through MpesaClient.destroy(), the
\* background sweep never runs again and no scheduled sweep task remains; destroy()
\* leaves the store empty, and a second destroy() of a limiter already destroyed and
\* empty changes nothing.
C25_DestroyStopsSweep ==
    /\ []( cleanupTask.destroys > 0
             => /\ ~cleanupTask.handle
                /\ cleanupTask.state = "cancelled"
                /\ ~cleanupTask.sweptAfterDestroy )
    /\ [][ cleanupTask'.destroys = cleanupTask.destroys + 1
             => /\ store' = EmptyStore
                /\ (cleanupTask.destroys > 0 /\ store = EmptyStore)
                      => /\ store' = store
                         /\ cleanupTask'.handle = cleanupTask.handle
                         /\ cleanupTask'.state = cleanupTask.state ]_vars

\* a limiter destroyed twice, after checkLimit calls had filled its store
C25_Witness ==
    /\ cleanupTask.destroys = 2
    /\ checks > 0
    /\ store = EmptyStore

(***************************************************************************)
(* Properties of the shared-store limiter under concurrency                *)
(***************************************************************************)
\* C26: with processes calling RedisRateLimiter.checkLimit concurrently on one key of a
\* shared store with atomic increment, under every interleaving of their increment,
\* set-expiry and get steps, at most maxRequests calls are admitted in each life of the
\* counter key (from its creation to its expiry).
C26_SharedStoreBound ==
    \A l \in 1 .. MaxChecks : lives.admitted[l] <= limOpts.maxRequests

\* while the caller that created the key has not yet set its expiry, another process
\* has had all the remaining calls of that life admitted and a further one refused
C26_Witness ==
    /\ limOpts.maxRequests = MaxRequestsBound
    /\ lives.cur > 0
    /\ lives.admitted[lives.cur] = MaxRequestsBound - 1
    /\ \E p, q \in Procs :
          /\ procs[p].pc = "expire"
          /\ procs[q].pc = "done" /\ ~procs[q].admitted /\ procs[q].life = lives.cur

(***************************************************************************)
(* Properties of calculateDelay                                            *)
(***************************************************************************)
\* the latest call was for an error without a retry-after hint
Unhinted ==
    /\ delayCall.attempt >= 0
    /\ ~(delayCall.error.kind = "MpesaRateLimitError" /\ Truthy(delayCall.error.retry_after))

C28_OnRetryThenSleep ==
    /\ \A i \in 1 .. Len(onRetryLog) : onRetryLog[i] = <<failLog[i], i>>
    /\ pc = "sleep" => (Len(onRetryLog) = calls /\ Len(sleepLog) = calls)
    /\ pc = "attempt" => (Len(onRetryLog) = calls /\ Len(sleepLog) = calls)
    /\ (pc = "done" /\ ~Cancelled)
          => /\ Len(onRetryLog) = calls - 1
             /\ Len(sleepLog) = calls - 1
             /\ result.error # OnRetryError

(***************************************************************************)
(* Properties of the local limiter's rejections and windows                *)
(***************************************************************************)
\* the last call on the local limiter was rejected
LocalRejected == lastCheck.key # NoKey /\ ~lastCheck.local

\* C29: every rejection by the local RateLimiter.checkLimit carries retry_after =
\* ceil((resetAt - now) / 1000) seconds, which is >= 1 and <= ceil(windowMs / 1000), with
\* details {limit = maxRequests, windowMs, resetAt = the window's resetAt}; for
\* maxRequests = 2, windowMs = 60000 and calls at t = 0, 10, 20 ms the outcomes are admit,
\* admit, reject with retry_after = 60.
C29_RetryAfterSeconds ==
    /\ LocalRejected
          => LET e == lastCheck.error
                 left == lastCheck.resetAt - lastCheck.time
             IN  /\ e.kind = "MpesaRateLimitError"
                 /\ 1000 * (e.retry_after - 1) < left
                 /\ left <= 1000 * e.retry_after
                 /\ e.retry_after >= 1
                 /\ 1000 * (e.retry_after - 1) < limOpts.windowMs
                 /\ e.details = [limit |-> limOpts.maxRequests, windowMs |-> limOpts.windowMs,
                                 resetAt |-> lastCheck.resetAt]
                 /\ lastCheck.entry.resetAt = lastCheck.resetAt
    /\ (limOpts = [maxRequests |-> 2, windowMs |-> 60000] /\ lastCheck.key # NoKey
          /\ lastCheck.resetAt = 60000 /\ lastCheck.time <= 20)
          => IF lastCheck.n <= 2 THEN lastCheck.local
             ELSE ~lastCheck.local /\ lastCheck.error.retry_after = 60

\* the scenario: the third call, at t = 20 ms, of the window opened at t = 0 and ending at
\* 60000 is rejected
C29_Witness ==
    /\ LocalRejected
    /\ limOpts = [maxRequests |-> 2, windowMs |-> 60000]
    /\ admitLog = <<0, 10>>
    /\ lastCheck.time = 20
    /\ lastCheck.error.retry_after = 60

\* the number of calls admitted at a time t with a <= t < b
AdmittedIn(a, b) ==
    Cardinality({i \in 1 .. Len(admitLog) : a <= admitLog[i] /\ admitLog[i] < b})

\* C30: for the local RateLimiter with maxRequests >= 1 and any sequence of checkLimit
\* calls on one key, the number of calls admitted in any time interval of length windowMs
\* is at most 2 * maxRequests, and the number admitted between a window's creation and
\* its resetAt is at most maxRequests.
C30_WindowBounds ==
    /\ \A i \in 1 .. Len(admitLog) :
          AdmittedIn(admitLog[i], admitLog[i] + limOpts.windowMs) <= 2 * limOpts.maxRequests
    /\ lastCheck.key # NoKey
          => /\ AdmittedIn(lastCheck.resetAt - limOpts.windowMs, lastCheck.resetAt)
                  <= limOpts.maxRequests
             /\ lastCheck.entry.count <= limOpts.maxRequests

\* an interval of length windowMs that straddles two windows and holds more admitted
\* calls than one window allows
C30_Witness ==
    /\ limOpts.maxRequests = MaxRequestsBound
    /\ limOpts.windowMs > 0
    /\ \E i \in 1 .. Len(admitLog) :
          AdmittedIn(admitLog[i], admitLog[i] + limOpts.windowMs) = 2 * MaxRequestsBound - 1

\* an entry checkLimit and getUsage would still count at the current time
Unexpired(e) == e # NoEntry /\ now < e.resetAt

\* C31: the sweep of the local limiter removes exactly the windows with now >= resetAt and
\* leaves every unexpired window unchanged; so a run with sweeps at arbitrary points gives
\* the same checkLimit decisions and the same getUsage reports as the same run on a
\* limiter that is never swept.
C31_SweepIsUnobservable ==
    /\ \A k \in Keys :
          Cleanup(store, now)[k] = IF Unexpired(store[k]) THEN store[k] ELSE NoEntry
    /\ \A k \in Keys :
          \/ store[k] = unswept.store[k]
          \/ store[k] = NoEntry /\ ~Unexpired(unswept.store[k])
    /\ lastCheck.key # NoKey => lastCheck.local = unswept.admitted
    /\ lastUsage # NoUsage
          => Report(lastUsage)
                = Report(getUsage(unswept.store, lastUsage.key, now, limOpts))

\* getUsage is called after a sweep has removed the key's window, which the never-swept
\* limiter still holds, the last checkLimit call having been rejected
C31_Witness ==
    /\ lastUsage # NoUsage
    /\ lastUsage.found[lastUsage.key] = NoEntry
    /\ unswept.store[lastUsage.key] # NoEntry
    /\ ~lastCheck.local

\* max(a, b)
Max(a, b) == IF a >= b THEN a ELSE b

\* C34: in every reachable state of the local RateLimiter, under any sequence of
\* checkLimit, getUsage, reset, resetAll, sweep and clock advance with windowMs >= 1, there
\* is at most one window per key, every stored window has 1 <= count <= max(1,
\* maxRequests), and the window a checkLimit call counted in ends strictly after the call.
C34_StoreInvariant ==
    limOpts.windowMs >= 1
       => /\ DOMAIN store = Keys
          /\ \A k \in Keys :
                store[k] # NoEntry
                   => /\ 1 <= store[k].count
                      /\ store[k].count <= Max(1, limOpts.maxRequests)
          /\ lastCheck.key # NoKey
                => /\ lastCheck.entry # NoEntry
                   /\ lastCheck.entry.resetAt > lastCheck.time

\* with maxRequests = 0 the key holds a window of count 1, still running, that has
\* rejected a call
C34_Witness ==
    /\ limOpts.windowMs >= 1
    /\ limOpts.maxRequests = 0
    /\ Unexpired(store[SharedKey])
    /\ store[SharedKey].count = 1
    /\ lastCheck.key = SharedKey
    /\ ~lastCheck.local
    /\ lastCheck.time < now

\* the counter key of the shared store
CountKey == <<SharedKey, "count">>

\* the step gives the counter key an expiry time it did not have
ExpirySet ==
    /\ redis'[CountKey].expireAt # NoneVal
    /\ redis'[CountKey].expireAt # redis[CountKey].expireAt

\* the step is the expire call of a checkLimit call whose increment returned 1
FirstCallExpires ==
    \E p \in Procs :
       /\ procs[p].pc = "expire"
       /\ procs[p].count = 1
       /\ procs'[p].pc # "expire"
       /\ redis' = RedisExpire(redis, CountKey, CeilSeconds(limOpts.windowMs), now)

\* C32: RedisRateLimiter.checkLimit attaches an expiry of ceil(windowMs / 1000) seconds to
\* the counter key exactly when its own increment returned 1: such a call goes on to the
\* expire call, a call that saw a larger value (admitted or rejected) never does, and the
\* expiry of a live counter, once set, does not change.
C32_ExpiryByFirstCallOnly ==
    /\ [](\A p \in Procs : procs[p].pc = "expire" => procs[p].count = 1)
    /\ [][/\ ExpirySet => FirstCallExpires
          /\ \A p \in Procs :
                (procs[p].pc \in {"idle", "done"} /\ procs'[p].pc # procs[p].pc)
                   => (procs'[p].pc = "expire" <=> redis'[CountKey].value = 1)
          /\ (RedisLive(redis, CountKey, now) /\ redis[CountKey].expireAt # NoneVal
                 /\ RedisLive(redis', CountKey, now'))
                => redis'[CountKey].expireAt = redis[CountKey].expireAt]_vars

\* the counter has its expiry from its first call, set at an earlier time, and later
\* calls of both kinds have been made in the same life: one admitted with a count above
\* 1, one rejected
C32_Witness ==
    /\ RedisLive(redis, CountKey, now)
    /\ redis[CountKey].expireAt # NoneVal
    /\ redis[CountKey].expireAt < now + CeilSeconds(limOpts.windowMs) * 1000
    /\ \E p, q \in Procs :
          /\ procs[p].pc = "done" /\ procs[p].admitted /\ procs[p].count > 1
          /\ procs[q].pc = "done" /\ ~procs[q].admitted
          /\ procs[p].life = lives.cur /\ procs[q].life = lives.cur

\* the companion key of the shared counter
TtlKey == <<SharedKey, "ttl">>

\* C33: no RedisRateLimiter operation (checkLimit, reset) writes the companion key
\* '<prefix>:<key>:ttl'; so where only the limiter writes, the key is absent and every
\* rejection carries retry_after = ceil(windowMs / 1000) however much of the window has
\* elapsed; when the key is present its integer value is the retry_after.
C33_CompanionKeyOnlyRead ==
    /\ [][redis'[TtlKey] = redis[TtlKey]]_vars
    /\ [](\A p \in Procs :
            (procs[p].pc = "done" /\ ~procs[p].admitted)
               => procs[p].retry_after
                     = IF redis[TtlKey] = NoRedis THEN CeilSeconds(limOpts.windowMs)
                       ELSE redis[TtlKey].value)

\* with no companion key, a call is rejected part-way through the counter's life and
\* still told to wait a whole window
C33_Witness ==
    /\ redis[TtlKey] = NoRedis
    /\ RedisLive(redis, <<SharedKey, "count">>, now)
    /\ redis[<<SharedKey, "count">>].expireAt # NoneVal
    /\ redis[<<SharedKey, "count">>].expireAt - now < CeilSeconds(limOpts.windowMs) * 1000
    /\ \E p \in Procs :
          /\ procs[p].pc = "done" /\ ~procs[p].admitted
          /\ procs[p].retry_after = CeilSeconds(limOpts.windowMs)

\* the positions of the items called `name` in the payload's list
Hits(name) == {i \in 1 .. Len(extraction.items) : extraction.items[i].name = name}

\* the orders a list of n items can come in
Orders(n) == {f \in [1 .. n -> 1 .. n] : \A i, j \in 1 .. n : f[i] = f[j] => i = j}
Reordered(items, f) == [i \in 1 .. Len(items) |-> items[f[i]]]

\* every order of the payload's items gives the fields the parser extracted
SameInEveryOrder ==
    \A f \in Orders(Len(extraction.items)) :
       ExtractFields(extraction.parser, extraction.result_code,
                     Reordered(extraction.items, f)) = extraction.fields

\* no documented name occurs twice in the payload's list
NoRepeatedName ==
    \A n \in DOMAIN MetadataFields[extraction.parser] : Cardinality(Hits(n)) <= 1

Limited == limiterKind # "none" /\ rlKey # NoKey

\* C36: in MpesaClient.makeRequest the rate-limit check runs inside the retried operation,
\* once per attempt: a makeRequest call that has made k attempts has invoked checkLimit k
\* times (none without a limiter or a key) and at most k of them were admitted; nothing
\* keeps a retry attempt from being rejected after the first attempt was admitted.
C36_CheckPerAttempt ==
    /\ Limited => checkCalls = calls
    /\ ~Limited => checkCalls = 0
    /\ tokenFetches <= calls

\* one makeRequest call on a local limiter with maxRequests = 1: its first attempt was
\* admitted and failed on the network, its second attempt was rejected by the limiter
C36_Witness ==
    /\ limiterKind = "local"
    /\ requests = 1
    /\ calls = 2
    /\ checkCalls = 2
    /\ tokenFetches = 1
    /\ Len(failLog) = 2
    /\ failLog[1].kind = "MpesaNetworkError"
    /\ failLog[2].kind = "MpesaRateLimitError"
    /\ store[rlKey].count = 1

\* C37: on one local RateLimiter, under every interleaving of checkLimit coroutines for
\* the same key and of the background sweep, no update is lost: the window a call counted
\* in holds as its count the number of calls admitted in that window, which is at most
\* max(1, maxRequests).
C37_NoLostUpdate ==
    /\ lastCheck.key # NoKey
          => /\ lastCheck.entry.count
                   = AdmittedIn(lastCheck.entry.resetAt - limOpts.windowMs,
                                lastCheck.entry.resetAt)
             /\ lastCheck.entry.count <= Max(1, limOpts.maxRequests)
    /\ Unexpired(store[SharedKey])
          => store[SharedKey].count
                = AdmittedIn(store[SharedKey].resetAt - limOpts.windowMs,
                             store[SharedKey].resetAt)

\* both coroutines were ready at once in a full window; one has run and was rejected, the
\* other has not run yet
C37_Witness ==
    /\ limOpts.maxRequests = MaxRequestsBound
    /\ Unexpired(store[SharedKey])
    /\ store[SharedKey].count = MaxRequestsBound
    /\ \E c, d \in Coros :
          /\ coros[c].pc = "done" /\ ~coros[c].admitted
          /\ coros[d].pc = "ready"
    /\ lastCheck.time = now

\* ---- C38 ----
\* the entry points that serve B2C, account balance, transaction status and reversal
\* callbacks: the MpesaClient methods and the Django webhook views
OutcomeEntries ==
    {"handleB2CCallback", "handleAccountBalanceCallback",
     "handleTransactionStatusCallback", "handleReversalCallback",
     "b2c_result", "account_balance_result", "transaction_status_result",
     "reversal_result"}

\* C38: for B2C, account balance, transaction status and reversal callbacks, when parsing
\* and the handler complete without error, the MpesaClient method and the Django view both
\* acknowledge with ResultCode = 0, whether the payload's result code is 0 or non-zero.
C38_AckIgnoresOutcome ==
    (/\ cbReq.entry \in OutcomeEntries
     /\ cbReq.payload.shape = "ok"
     /\ cbResult.internal = "none")
      => /\ cbResult.kind = "ack"
         /\ cbResult.ResultCode = 0

\* ---- C39 ----
StkHandlers == {"on_callback", "on_success", "on_failure"}

\* C39: with IP validation enabled, no STK handler (on_callback, on_success, on_failure)
\* is dispatched for a callback whose source address is not a member of the allow-list,
\* a delivery with no source address at all (None or the empty string) included.
C39_NoDispatchWithoutTrustedSource ==
    (/\ cbReq.entry \in StkEntries
     /\ handler.validate_ip
     /\ cbReq.ip \notin handler.allowed_ips)
      => Invoked \cap StkHandlers = {}

\* ---- C40 ----
\* every started checkLimit call of every process has completed
AllCompleted == \A p \in Procs : procs[p].pc \in {"idle", "done"}

\* a counter key that exists with value >= 1 has an expiry attached
ExpiryAttached ==
    (RedisLive(redis, CountKey, now) /\ redis[CountKey].value >= 1)
      => redis[CountKey].expireAt # NoneVal

\* no call is between its increment and its set-expiry step, and the key has its expiry
ExpiryAttachedAtRest == AllCompleted => ExpiryAttached

\* the next checkLimit call would be rejected: the increment would pass the limit
Rejecting ==
    /\ RedisLive(redis, CountKey, now)
    /\ redis[CountKey].value >= 1
    /\ OverLimit(redis[CountKey].value + 1, limOpts)

\* a rejecting key is younger than ceil(windowMs / 1000) seconds, counted from the first
\* increment of its window
ReadmittedInTime ==
    Rejecting => now < lives.first + CeilSeconds(limOpts.windowMs) * 1000

\* C40: in shared mode, under every interleaving of the increment and set-expiry steps of
\* several processes and after any reset(key), once all started checkLimit calls have
\* completed the counter key with value >= 1 has an expiry attached, and a key over its
\* limit is admitted again at most ceil(windowMs / 1000) seconds after the window's first
\* increment.
C40_ExpiresWithinWindow ==
    /\ ExpiryAttachedAtRest
    /\ AllCompleted => ReadmittedInTime

====
